---- MODULE Spec2Model ----
(***************************************************************************)
(* A model of the azureai-incidents scripts: the all-labels and the        *)
(* single-label counting runs (count_incidents in its lexical and its      *)
(* model-delegated variant), the report writer (generate_report) and the   *)
(* category discovery (discover_incidents).                                *)
(*                                                                         *)
(* Text is a sequence of one-character strings, so that substring          *)
(* counting, integer parsing and JSON / CSV encoding are computed          *)
(* character by character, as the Python code does.                        *)
(***************************************************************************)
EXTENDS Integers, Sequences, FiniteSets, TLC

VARIABLES
    script,          \* which script's main() is running
    argv,            \* single-label scripts: <<label>> or <<>> (no argument)
    configFile,      \* config/incident_type_distribution.json: <<[term, count]>>
    incident_types,  \* main's incident_types after load_incident_types()
    pc,              \* position in main()
    idx,             \* position of the for loop in incident_types
    results,         \* main's results list
    searchOutcome,   \* current count_incidents call: "none" | "ok" | "error"
    query,           \* current call: the search text sent, <<>> before the search
    docs,            \* current count_incidents call: contents of the results
    downOutcome,     \* current call: outcome of the key-phrase / completion call
    key_phrases,     \* current call: extracted key phrases
    completion,      \* current call: the completion text
    ret,             \* current call: <<>> or <<returned value>>
    calls,           \* current call: number of requests per service
    failedLabels,    \* history: positions of the labels whose count failed
    jsonFile,        \* the JSON report file
    csvFile,         \* the CSV report file
    top_n,           \* discover_incidents: its top_n argument
    batch_size,      \* discover_incidents: its batch_size argument
    found,           \* discover_incidents: len(results) of the "*" search
    batchStart,      \* discover_incidents: the loop variable i
    attempt,         \* make_openai_request: the number of the next attempt
    all_incidents,   \* discover_incidents: the categories collected so far
    batchLog,        \* history: the outcome of every batch handled so far
    batches,         \* history: the slice of the results each batch was made of
    top_incidents,   \* the list discover_incidents returned
    waits,           \* make_openai_request: the waits before the re-attempts so far
    delayLog,        \* history: whether time.sleep(2) ran after each batch handled
    now,             \* the wall clock, in ticks since StartOfClock
    output,          \* args.output of the run
    fs,              \* the report files on disk: path -> text
    runLog,          \* history: the report paths of every run's writer
    dir,             \* the files of DATA_DIR, in os.listdir order
    index,           \* the search index: whether it exists, and id -> content
    indexLog,        \* history: what read_and_index_documents did
    deleteOutcome,   \* history: how delete_index_if_exists ended, "none" before
    env,             \* the settings os.getenv reads: missing, wrong or valid
    initError        \* module initialisation: "none", or how its error ended

runVars == <<script, argv, configFile, incident_types, pc, idx, results,
             searchOutcome, query, docs, downOutcome, key_phrases, completion, ret,
             calls, failedLabels, jsonFile, csvFile, output>>

discVars == <<top_n, batch_size, found, batchStart, attempt, all_incidents,
              batchLog, batches, top_incidents, waits, delayLog>>

\* what outlives a run: the clock and the report files
worldVars == <<now, fs, runLog>>

\* the document loader's world: the data directory and the search index
indexVars == <<dir, index, indexLog, deleteOutcome>>

\* the environment of the process and what became of its start
startVars == <<env, initError>>

vars == <<runVars, discVars, worldVars, indexVars, startVars>>

-----------------------------------------------------------------------------
(* Bounds *)

MaxLabels == 2

MaxFound == 3

-----------------------------------------------------------------------------
(* Text helpers: Python str operations on sequences of characters *)

Max(a, b) == IF a >= b THEN a ELSE b

\* str.lower() on the model's alphabet
Lower(c) == CASE c = "A" -> "a" [] c = "B" -> "b" [] OTHER -> c

LowerStr(s) == [i \in 1..Len(s) |-> Lower(s[i])]

MatchAt(t, s, i) ==
    /\ i + Len(s) - 1 <= Len(t)
    /\ \A k \in 1..Len(s) : t[i + k - 1] = s[k]

RECURSIVE CountFromOverlapping(_, _, _)
CountFromOverlapping(t, s, i) ==
    IF i + Len(s) - 1 > Len(t) THEN 0
    ELSE IF MatchAt(t, s, i) THEN 1 + CountFromOverlapping(t, s, i + 1)
    ELSE CountFromOverlapping(t, s, i + 1)
RECURSIVE CountFrom(_, _, _)
CountFrom(t, s, i) ==
    IF i + Len(s) - 1 > Len(t) THEN 0
    ELSE IF MatchAt(t, s, i) THEN 1 + CountFrom(t, s, i + Len(s))
    ELSE CountFrom(t, s, i + 1)

\* str.count(sub): non-overlapping occurrences, scanning from the left
StrCount(t, s) == IF Len(s) = 0 THEN Len(t) + 1 ELSE CountFrom(t, s, 1)

\* sub in str
StrIn(s, t) == Len(s) = 0 \/ \E i \in 1..Len(t) : MatchAt(t, s, i)

RECURSIVE Join(_, _)
Join(sep, list) ==
    IF Len(list) = 0 THEN <<>>
    ELSE IF Len(list) = 1 THEN list[1]
    ELSE list[1] \o sep \o Join(sep, Tail(list))

IsSpace(c) == c \in {" ", "\n", "\t", "\r"}

RECURSIVE LStrip(_)
LStrip(s) == IF Len(s) > 0 /\ IsSpace(s[1]) THEN LStrip(Tail(s)) ELSE s

RECURSIVE RStrip(_)
RStrip(s) ==
    IF Len(s) > 0 /\ IsSpace(s[Len(s)]) THEN RStrip(SubSeq(s, 1, Len(s) - 1)) ELSE s

\* str.strip()
Strip(s) == RStrip(LStrip(s))

Digits == <<"0", "1", "2", "3", "4", "5", "6", "7", "8", "9">>

IsDigit(c) == \E d \in 1..Len(Digits) : Digits[d] = c

DigitVal(c) == (CHOOSE d \in 1..Len(Digits) : Digits[d] = c) - 1

RECURSIVE DigitsVal(_, _)
DigitsVal(s, acc) ==
    IF Len(s) = 0 THEN acc
    ELSE IF s[1] = "_" THEN DigitsVal(Tail(s), acc)
    ELSE DigitsVal(Tail(s), acc * Len(Digits) + DigitVal(s[1]))

\* the digits part of an int literal: digits, single underscores between them
DigitsOk(s) ==
    /\ Len(s) > 0
    /\ IsDigit(s[1])
    /\ IsDigit(s[Len(s)])
    /\ \A i \in 1..Len(s) : IsDigit(s[i]) \/ s[i] = "_"
    /\ \A i \in 1..(Len(s) - 1) : ~(s[i] = "_" /\ s[i + 1] = "_")

\* int(text): [ok, val]; ok = FALSE stands for ValueError
PyInt(text) ==
    LET s == Strip(text)
        signed == Len(s) > 0 /\ s[1] \in {"+", "-"}
        body == IF signed THEN Tail(s) ELSE s
    IN  IF DigitsOk(body)
        THEN [ok |-> TRUE,
              val |-> IF signed /\ s[1] = "-" THEN 0 - DigitsVal(body, 0)
                      ELSE DigitsVal(body, 0)]
        ELSE [ok |-> FALSE, val |-> 0]

-----------------------------------------------------------------------------
(* Inputs: the labels, documents, key phrases and completion texts *)

Q == "\""

L_a == <<"a">>
L_aa == <<"a", "a">>
L_a_b == <<"a", " ", "b">>

\* the labels a configuration file or a command line may name
Labels == {L_a, L_aa, L_a_b}

\* the ground-truth counts a configuration file may give
Counts == {1, 2}

\* the contents of the documents of the index
Documents ==
    { <<"A", "a", "a">>,
      <<"a", " ", "B", " ", "a">>,
      <<Q, Q, Q, "A", " ", "b", Q, Q, Q>> }

\* what search_client.search() may yield: an exception or a list of documents
SearchLists ==
    { <<>> } \cup { <<d>> : d \in Documents }
             \cup { << <<"A", "a", "a">>, <<"a", " ", "B", " ", "a">> >>,
                    << <<Q, Q, Q, "A", " ", "b", Q, Q, Q>>, <<"A", "a", "a">> >> }

KeyPhrases == { <<"a">>, <<"A", " ", "b">>, <<"b">> }

\* what extract_key_phrases() may yield for the one combined document
KeyPhraseLists ==
    { <<>> } \cup { <<p>> : p \in KeyPhrases }
             \cup { << <<"a">>, <<"A", " ", "b">> >>, << <<"b">>, <<"b">> >> }

\* the completion texts of the chat-completion service
Completions ==
    { <<"3">>, <<"-", "3">>, <<" ", "1", "2", "\n">>, <<"t", "w", "o">>,
      <<"1", "_", "0">>, <<>> }

\* the configuration files: lists of distinct terms with their counts
RECURSIVE ConfigsOfLen(_)
ConfigsOfLen(n) ==
    IF n = 0 THEN { <<>> }
    ELSE { Append(c, [term |-> t, count |-> k]) :
             c \in ConfigsOfLen(n - 1), t \in Labels, k \in Counts }

DistinctTerms(c) == \A i, j \in 1..Len(c) : c[i].term = c[j].term => i = j

Configs ==
    { c \in UNION { ConfigsOfLen(n) : n \in 0..MaxLabels } : DistinctTerms(c) }

-----------------------------------------------------------------------------
(* The scripts *)

AllLabelsScripts == {"query_azure_search_all", "query_all", "query_azureai_all"}
SingleLabelScripts == {"query_azureai", "query_openai"}
Scripts == AllLabelsScripts \cup SingleLabelScripts

\* the scripts whose count_incidents is the lexical variant
Lexical(s) == s \in {"query_azure_search_all", "query_all", "query_azureai"}

\* the scripts whose main() calls create_search_index()
CreatesIndex(s) == s \in {"query_all", "query_azureai"}

\* the scripts whose main() calls read_and_index_documents()
IndexesDocuments(s) == s \in {"query_azure_search_all", "query_all", "query_azureai"}

NoFile == [exists |-> FALSE, text |-> <<>>]
File(t) == [exists |-> TRUE, text |-> t]

NoCalls ==
    [search |-> 0, key_phrases |-> 0, chat |-> 0, upload |-> 0, count |-> 0,
     delete_index |-> 0, create_index |-> 0]

-----------------------------------------------------------------------------
(* count_incidents *)

combined_content(d) == Join(<<"\n", "\n">>, d)

RECURSIVE phrase_count(_, _)
phrase_count(query_incident, phrases) ==
    IF Len(phrases) = 0 THEN 0
    ELSE (IF StrIn(LowerStr(query_incident), LowerStr(phrases[1])) THEN 1 ELSE 0)
         + phrase_count(query_incident, Tail(phrases))

content_count(query_incident, content) ==
    StrCount(LowerStr(content), LowerStr(query_incident))

\* the except clause of count_incidents: log, return 0
CountExceptReraise == [ret |-> <<>>, raised |-> TRUE]
CountExcept == [ret |-> <<0>>, raised |-> FALSE]

Returned(v) == [ret |-> <<v>>, raised |-> FALSE]

\* count_incidents after a non-empty search, lexical variant: the result of
\* the key-phrase call decides
LexicalCount(query_incident, d, o) ==
    CASE o.kind = "raise" -> CountExcept
      [] o.kind = "doc_error" -> CountExcept
      [] o.kind = "empty_response" -> Returned(0)
      [] Len(o.phrases) = 0 -> Returned(0)
      [] OTHER ->
           Returned(Max(phrase_count(query_incident, o.phrases),
                        content_count(query_incident, combined_content(d))))

\* count_incidents after a non-empty search, model-delegated variant: the
\* completion decides
ModelCount(o) ==
    CASE o.kind = "raise" -> CountExcept
      [] o.kind = "no_content" -> CountExcept
      [] OTHER ->
           IF PyInt(o.text).ok THEN Returned(PyInt(o.text).val) ELSE CountExcept

KeyPhraseOutcomes ==
    { [kind |-> k, phrases |-> <<>>] : k \in {"raise", "doc_error", "empty_response"} }
    \cup { [kind |-> "ok", phrases |-> p] : p \in KeyPhraseLists }

CompletionOutcomes ==
    { [kind |-> k, text |-> <<>>] : k \in {"raise", "no_content"} }
    \cup { [kind |-> "ok", text |-> t] : t \in Completions }

-----------------------------------------------------------------------------
(* load_incident_types and the sort of query_azureai_all.main *)

\* dict[key] = value on a dict kept as a list of items in insertion order
RECURSIVE DictSet(_, _, _)
DictSet(d, k, v) ==
    IF Len(d) = 0 THEN << [term |-> k, count |-> v] >>
    ELSE IF d[1].term = k THEN << [term |-> k, count |-> v] >> \o Tail(d)
    ELSE << d[1] >> \o DictSet(Tail(d), k, v)

ModifiedTermAlways(term) == <<Q, Q, Q>> \o term \o <<Q, Q, Q>>
\* the key load_incident_types of query_azure_search_all stores a term under
ModifiedTerm(term) ==
    IF StrIn(<<" ">>, term) THEN <<Q, Q, Q>> \o term \o <<Q, Q, Q>> ELSE term

RECURSIVE ModifyAll(_, _)
ModifyAll(cfg, acc) ==
    IF Len(cfg) = 0 THEN acc
    ELSE ModifyAll(Tail(cfg), DictSet(acc, ModifiedTerm(cfg[1].term), cfg[1].count))

load_incident_types(s, cfg) ==
    IF s = "query_azure_search_all" THEN ModifyAll(cfg, <<>>) ELSE cfg

RECURSIVE InsertDescUnstable(_, _)
InsertDescUnstable(sorted, x) ==
    IF Len(sorted) = 0 THEN <<x>>
    ELSE IF sorted[1].ground_truth_count <= x.ground_truth_count
         THEN <<x>> \o sorted
    ELSE << sorted[1] >> \o InsertDescUnstable(Tail(sorted), x)
\* list.sort(key=ground_truth_count, reverse=True): stable, descending
RECURSIVE InsertDesc(_, _)
InsertDesc(sorted, x) ==
    IF Len(sorted) = 0 THEN <<x>>
    ELSE IF sorted[1].ground_truth_count < x.ground_truth_count
         THEN <<x>> \o sorted
    ELSE << sorted[1] >> \o InsertDesc(Tail(sorted), x)

RECURSIVE SortDesc(_, _)
SortDesc(list, acc) ==
    IF Len(list) = 0 THEN acc ELSE SortDesc(Tail(list), InsertDesc(acc, list[1]))

\* the list main hands to generate_report
ReportList(s, res) == IF s = "query_azureai_all" THEN SortDesc(res, <<>>) ELSE res

Record(name, gt, dc) ==
    [name |-> name, ground_truth_count |-> gt, discovered_count |-> dc]

-----------------------------------------------------------------------------
(* generate_report: json.dump(results, f, indent=2) and csv.DictWriter *)

RECURSIVE Flatten(_)
Flatten(ss) == IF Len(ss) = 0 THEN <<>> ELSE ss[1] \o Flatten(Tail(ss))

RECURSIVE NatStr(_)
NatStr(n) ==
    IF n < Len(Digits) THEN << Digits[n + 1] >>
    ELSE NatStr(n \div Len(Digits)) \o << Digits[(n % Len(Digits)) + 1] >>

\* str(n) of an int
IntStr(n) == IF n < 0 THEN <<"-">> \o NatStr(0 - n) ELSE NatStr(n)

FieldNames == <<"name", "ground_truth_count", "discovered_count">>

\* the characters of a field name
FieldChars(f) ==
    CASE f = "name" -> <<"n", "a", "m", "e">>
      [] f = "ground_truth_count" ->
           <<"g", "r", "o", "u", "n", "d", "_", "t", "r", "u", "t", "h", "_",
             "c", "o", "u", "n", "t">>
      [] f = "discovered_count" ->
           <<"d", "i", "s", "c", "o", "v", "e", "r", "e", "d", "_",
             "c", "o", "u", "n", "t">>

\* json: one character of a string, escaped
JsonCharRaw(c) == <<c>>
JsonChar(c) ==
    CASE c = Q -> <<"\\", Q>>
      [] c = "\\" -> <<"\\", "\\">>
      [] c = "\n" -> <<"\\", "n">>
      [] c = "\r" -> <<"\\", "r">>
      [] c = "\t" -> <<"\\", "t">>
      [] OTHER -> <<c>>

JsonString(s) == <<Q>> \o Flatten([i \in 1..Len(s) |-> JsonChar(s[i])]) \o <<Q>>

\* a value of a record: a string (a sequence of characters) or an int
JsonValue(f, v) == IF f = "name" THEN JsonString(v) ELSE IntStr(v)

Indent(n) == [i \in 1..n |-> " "]

IndentWidth == 2

\* one "key": value line of an object at nesting depth 2
JsonMember(r, f) ==
    Indent(2 * IndentWidth) \o JsonString(FieldChars(f)) \o <<":", " ">>
        \o JsonValue(f, r[f])

JsonObject(r) ==
    Indent(IndentWidth) \o <<"{", "\n">>
        \o Join(<<",", "\n">>, [k \in 1..Len(FieldNames) |-> JsonMember(r, FieldNames[k])])
        \o <<"\n">> \o Indent(IndentWidth) \o <<"}">>

\* json.dump(results, f, indent=2)
JsonDump(res) ==
    IF Len(res) = 0 THEN <<"[", "]">>
    ELSE <<"[", "\n">>
             \o Join(<<",", "\n">>, [i \in 1..Len(res) |-> JsonObject(res[i])])
             \o <<"\n", "]">>

\* csv: a field is quoted when it holds the delimiter, the quote character
\* or a character of the line terminator; quotes inside are doubled
CsvNeedsQuote(s) == \E i \in 1..Len(s) : s[i] \in {",", Q, "\r", "\n"}

CsvFieldNeverQuoted(s) == s
CsvField(s) ==
    IF CsvNeedsQuote(s)
    THEN <<Q>> \o Flatten([i \in 1..Len(s) |-> IF s[i] = Q THEN <<Q, Q>> ELSE <<s[i]>>])
             \o <<Q>>
    ELSE s

\* writer.writerow(fields): the fields, comma-separated, then "\r\n"
CsvRow(fields) ==
    Join(<<",">>, [i \in 1..Len(fields) |-> CsvField(fields[i])]) \o <<"\r", "\n">>

\* the fields DictWriter writes for a record, in fieldnames order
CsvRecordFields(r) ==
    [k \in 1..Len(FieldNames) |->
        IF FieldNames[k] = "name" THEN r[FieldNames[k]] ELSE IntStr(r[FieldNames[k]])]

CsvHeaderFields == [k \in 1..Len(FieldNames) |-> FieldChars(FieldNames[k])]

\* writer.writeheader(), then writer.writerow(row) for each row
CsvWrite(res) ==
    CsvRow(CsvHeaderFields)
        \o Flatten([i \in 1..Len(res) |-> CsvRow(CsvRecordFields(res[i]))])

-----------------------------------------------------------------------------
(* Module initialisation: the settings, the credentials, the clients *)

Settings ==
    {"AZURE_SEARCH_ENDPOINT", "AZURE_SEARCH_KEY", "AZURE_TEXT_ANALYTICS_ENDPOINT",
     "AZURE_TEXT_ANALYTICS_KEY", "AZURE_OPENAI_ENDPOINT", "AZURE_OPENAI_KEY"}

\* the scripts that use the key-phrase service, and those that use the
\* completion service
UsesTextAnalytics(s) ==
    s \in {"query_azure_search_all", "query_all", "query_azureai"}

UsesOpenAI(s) == s \in {"query_azureai_all", "query_openai", "discover_azureai"}

\* the keys the script hands to AzureKeyCredential
CredentialKeys(s) ==
    {"AZURE_SEARCH_KEY"}
    \cup (IF UsesTextAnalytics(s) THEN {"AZURE_TEXT_ANALYTICS_KEY"} ELSE {})

\* the settings the script hands to its client constructors
ClientSettings(s) ==
    {"AZURE_SEARCH_ENDPOINT"}
    \cup (IF UsesTextAnalytics(s) THEN {"AZURE_TEXT_ANALYTICS_ENDPOINT"} ELSE {})
    \cup (IF UsesOpenAI(s) THEN {"AZURE_OPENAI_ENDPOINT", "AZURE_OPENAI_KEY"} ELSE {})

SettingsOf(s) == CredentialKeys(s) \cup ClientSettings(s)

\* the handler around the credentials: "except ValueError" everywhere but in
\* query_azureai_all, whose one try block has "except Exception"
CredentialHandler(s) ==
    IF s = "query_azureai_all" THEN {"ValueError", "TypeError"} ELSE {"ValueError"}

\* AzureKeyCredential(key): os.getenv gives None for a missing setting, and
\* the constructor raises TypeError for a key that is not a string; any
\* string is accepted
AzureKeyCredential(key) == IF key = "missing" THEN "TypeError" ELSE "ok"

\* the client constructors: a setting that is None raises, a string is
\* accepted; the services are not called
ClientConstructor(setting) == IF setting = "missing" THEN "ValueError" ELSE "ok"

\* module initialisation of script s under the settings e: "ok", or how the
\* exception ended: "logged" (logging.error, then raise) or "unlogged"
module_init(s, e) ==
    IF \E k \in CredentialKeys(s) : AzureKeyCredential(e[k]) # "ok"
    THEN IF \A k \in CredentialKeys(s) :
               AzureKeyCredential(e[k]) \in CredentialHandler(s) \cup {"ok"}
         THEN "logged" ELSE "unlogged"
    ELSE IF \E k \in ClientSettings(s) : ClientConstructor(e[k]) # "ok"
         THEN "logged"
    ELSE "ok"

-----------------------------------------------------------------------------
(* The report paths: the clock, strftime, os.path.splitext, os.path.join *)

\* the ticks of the model's clock in one second
TicksPerSecond == 2

\* the clock's range, in ticks
MaxTicks == 4

\* the second the clock starts at: 23:59:58 on the first day of the month
StartOfClock == (23 * 60 + 59) * 60 + 58

\* "%02d"
Pad2(n) == IF n < Len(Digits) THEN <<"0">> \o NatStr(n) ELSE NatStr(n)

\* strftime("%Y%m%d_%H%M%S") of the second t of January 2024
Strftime(t) ==
    <<"2", "0", "2", "4", "0", "1">> \o Pad2(1 + t \div (24 * 60 * 60))
        \o <<"_">> \o Pad2((t \div (60 * 60)) % 24) \o Pad2((t \div 60) % 60)
        \o Pad2(t % 60)

\* datetime.now().strftime(..) when the clock shows tick n
Timestamp(n) == Strftime(StartOfClock + n \div TicksPerSecond)

\* str.rfind(c) + 1: the last position of c in p, 0 when there is none
RFind(p, c) ==
    IF \E i \in 1..Len(p) : p[i] = c
    THEN CHOOSE i \in 1..Len(p) : p[i] = c /\ \A k \in (i + 1)..Len(p) : p[k] # c
    ELSE 0

\* os.path.splitext(p)[0]: p up to the last dot of its last component, when
\* a character other than a dot precedes that dot in the component
SplitextRoot(p) ==
    LET sepIndex == RFind(p, "/")
        dotIndex == RFind(p, ".")
    IN  IF dotIndex > sepIndex /\ \E k \in (sepIndex + 1)..(dotIndex - 1) : p[k] # "."
        THEN SubSeq(p, 1, dotIndex - 1)
        ELSE p

\* os.path.join(a, b) for a relative b
PathJoin(a, b) ==
    IF Len(a) = 0 \/ a[Len(a)] = "/" THEN a \o b ELSE a \o <<"/">> \o b

Ext_json == <<".", "j", "s", "o", "n">>
Ext_csv == <<".", "c", "s", "v">>

\* the default of --output in query_azure_search_all and query_all
DefaultOutputFile == <<"r", "e", "p", "o", "r", "t", "s", "/", "t", "e", "r", "m", "s", "_", "d", "i", "s", "c", "o", "v", "e", "r", "e", "d", ".", "j", "s", "o", "n">>

\* the default of --output in query_azureai_all
DefaultOutputDir == <<"r", "e", "p", "o", "r", "t", "s">>

incident_analysis_ == <<"i", "n", "c", "i", "d", "e", "n", "t", "_", "a", "n", "a", "l", "y", "s", "i", "s", "_">>
openai_report_ == <<"o", "p", "e", "n", "a", "i", "_", "r", "e", "p", "o", "r", "t", "_">>
incidents_discovered_ == <<"i", "n", "c", "i", "d", "e", "n", "t", "s", "_", "d", "i", "s", "c", "o", "v", "e", "r", "e", "d", "_">>

\* args.output when the command line gives none
DefaultOutput(s) ==
    CASE s \in {"query_azure_search_all", "query_all"} -> DefaultOutputFile
      [] s = "query_azureai_all" -> DefaultOutputDir
      [] OTHER -> <<>>

\* the values of args.output
Outputs(s) ==
    CASE s \in {"query_azure_search_all", "query_all"} ->
           { DefaultOutputFile, <<"r", ".", "d", "/", "t">>, <<".", "t">> }
      [] s = "query_azureai_all" -> { DefaultOutputDir, <<"r", "/">>, <<>> }
      [] OTHER -> { <<>> }

\* the path of the JSON file a script's report writer opens
JsonReportPath(s, out, stamp) ==
    CASE s = "query_azure_search_all" ->
           SplitextRoot(out) \o <<"_">> \o stamp \o Ext_json
      [] s = "query_all" -> out
      [] s = "query_azureai_all" ->
           PathJoin(out, incident_analysis_ \o stamp \o Ext_json)
      [] s = "discover_azureai" ->
           DefaultOutputDir \o <<"/">> \o incidents_discovered_ \o stamp \o Ext_json

\* the path of the CSV file a script's report writer opens
CsvReportPath(s, out, stamp) ==
    CASE s = "query_azure_search_all" ->
           SplitextRoot(out) \o <<"_">> \o stamp \o Ext_csv
      [] s = "query_all" -> SplitextRoot(out) \o Ext_csv
      [] s = "query_azureai_all" ->
           PathJoin(out, openai_report_ \o stamp \o Ext_csv)
      [] s = "discover_azureai" ->
           DefaultOutputDir \o <<"/">> \o incidents_discovered_ \o stamp \o Ext_csv

NoFiles == [q \in {} |-> <<>>]

\* open(path, 'w') and the write: the file is created or truncated
WriteFile(f, path, text) ==
    [q \in (DOMAIN f) \cup {path} |-> IF q = path THEN text ELSE f[q]]

\* the files on disk after a writer ran with outcome o
FilesAfter(f, o, jp, jtext, cp, ctext) ==
    CASE o = "json_open_fails" -> f
      [] o = "csv_open_fails" -> WriteFile(f, jp, jtext)
      [] OTHER -> WriteFile(WriteFile(f, jp, jtext), cp, ctext)

\* what a writer's run leaves in the history
Written(s, out, o, jp, cp) ==
    [script |-> s, output |-> out, json |-> jp, csv |-> cp,
     wrote |-> CASE o = "json_open_fails" -> {}
                 [] o = "csv_open_fails" -> {"json"}
                 [] OTHER -> {"json", "csv"}]

\* the world at the start of a model run: no report yet
NewWorld ==
    /\ now = 0
    /\ fs = NoFiles
    /\ runLog = <<>>
    /\ env = [k \in Settings |-> "valid"]
    /\ initError = "none"

-----------------------------------------------------------------------------
(* The document loader: encode_filename, read_and_index_documents and the   *)
(* search index                                                            *)

\* a character outside ASCII: U+00E9
E_acute == "e-acute"

\* str.encode(): the UTF-8 bytes of a character of the model's alphabet
Utf8(c) ==
    CASE c = "a" -> <<97>>
      [] c = "b" -> <<98>>
      [] c = "?" -> <<63>>
      [] c = "~" -> <<126>>
      [] c = "." -> <<46>>
      [] c = "t" -> <<116>>
      [] c = "x" -> <<120>>
      [] c = "m" -> <<109>>
      [] c = "d" -> <<100>>
      [] c = E_acute -> <<195, 169>>

Encode(text) == Flatten([i \in 1..Len(text) |-> Utf8(text[i])])

B64Alphabet ==
    <<"A", "B", "C", "D", "E", "F", "G", "H", "I", "J", "K", "L", "M",
       "N", "O", "P", "Q", "R", "S", "T", "U", "V", "W", "X", "Y", "Z",
       "a", "b", "c", "d", "e", "f", "g", "h", "i", "j", "k", "l", "m",
       "n", "o", "p", "q", "r", "s", "t", "u", "v", "w", "x", "y", "z",
       "0", "1", "2", "3", "4", "5", "6", "7", "8", "9", "-", "_">>

B64Char(sextet) == B64Alphabet[sextet + 1]

\* base64.urlsafe_b64encode: three bytes give four characters, the last
\* one or two bytes are padded with "="
RECURSIVE B64Encode(_)
B64Encode(b) ==
    IF Len(b) = 0 THEN <<>>
    ELSE IF Len(b) = 1
         THEN << B64Char(b[1] \div 4), B64Char((b[1] % 4) * 16), "=", "=" >>
    ELSE IF Len(b) = 2
         THEN << B64Char(b[1] \div 4), B64Char((b[1] % 4) * 16 + b[2] \div 16),
                 B64Char((b[2] % 16) * 4), "=" >>
    ELSE << B64Char(b[1] \div 4), B64Char((b[1] % 4) * 16 + b[2] \div 16),
            B64Char((b[2] % 16) * 4 + b[3] \div 64), B64Char(b[3] % 64) >>
            \o B64Encode(SubSeq(b, 4, Len(b)))

Ext_txt == <<".", "t", "x", "t">>

\* filename[:-4]
WithoutLast4(filename) ==
    IF Len(filename) <= Len(Ext_txt) THEN <<>>
    ELSE SubSeq(filename, 1, Len(filename) - Len(Ext_txt))

encode_filenameWhole(filename) == B64Encode(Encode(filename))
encode_filename(filename) == B64Encode(Encode(WithoutLast4(filename)))

\* str.endswith(suffix)
EndsWith(t, suffix) ==
    /\ Len(t) >= Len(suffix)
    /\ SubSeq(t, Len(t) - Len(suffix) + 1, Len(t)) = suffix

\* the files DATA_DIR may hold: a name, whether open() and read() succeed,
\* and the text read
DataFile(name, kind, content) == [name |-> name, kind |-> kind, content |-> content]

Name_a == <<"a">> \o Ext_txt
Name_ab == <<"a", "b">> \o Ext_txt
Name_q == <<"?", "?", "~">> \o Ext_txt
Name_e == <<E_acute>> \o Ext_txt
Name_md == <<"b", ".", "m", "d">>

DataFiles ==
    { DataFile(Name_a, "ok", <<" ", "A", "\n">>),
      DataFile(Name_a, "ok", <<"b">>),
      DataFile(Name_ab, "ok", <<"a", " ", "B", " ", "a">>),
      DataFile(Name_ab, "io_error", <<>>),
      DataFile(Name_q, "ok", <<"x">>),
      DataFile(Name_q, "decode_error", <<>>),
      DataFile(Name_e, "ok", <<"A">>),
      DataFile(Ext_txt, "ok", <<"x">>),
      DataFile(Name_md, "ok", <<"x">>) }

\* the number of files of DATA_DIR
MaxFiles == 2

RECURSIVE DirsOfLen(_)
DirsOfLen(n) ==
    IF n = 0 THEN { <<>> }
    ELSE { Append(d, f) : d \in DirsOfLen(n - 1), f \in DataFiles }

DistinctNames(d) == \A i, j \in 1..Len(d) : d[i].name = d[j].name => i = j

Directories ==
    { d \in UNION { DirsOfLen(n) : n \in 0..MaxFiles } : DistinctNames(d) }

Document(id, content) == [id |-> id, content |-> content]

\* the loop over os.listdir(input_folder): the documents list it builds, and
\* whether an exception left the loop (only IOError is caught inside it)
RECURSIVE ReadFiles(_, _)
ReadFiles(files, documents) ==
    IF Len(files) = 0 THEN [documents |-> documents, raised |-> FALSE]
    ELSE IF ~EndsWith(files[1].name, Ext_txt) THEN ReadFiles(Tail(files), documents)
    ELSE CASE files[1].kind = "ok" ->
                ReadFiles(Tail(files),
                          Append(documents,
                                 Document(encode_filename(files[1].name),
                                          Strip(files[1].content))))
           [] files[1].kind = "io_error" -> ReadFiles(Tail(files), documents)
           [] files[1].kind = "decode_error" ->
                [documents |-> documents, raised |-> TRUE]

NoDocs == [q \in {} |-> <<>>]

NoIndex == [exists |-> FALSE, docs |-> NoDocs]
EmptyIndex == [exists |-> TRUE, docs |-> NoDocs]

\* the index after earlier runs uploaded a.txt and e-acute.txt
PriorIndex ==
    [exists |-> TRUE,
     docs |-> WriteFile(WriteFile(NoDocs, encode_filename(Name_a), <<"o", "l", "d">>),
                        encode_filename(Name_e), <<"A">>)]

\* the upload action of the index: the document is stored under its id,
\* in place of a document with the same id
RECURSIVE UploadedOrRemoved(_, _, _)
UploadedOrRemoved(d, documents, succeeded) ==
    IF Len(documents) = 0 THEN d
    ELSE UploadedOrRemoved(IF succeeded[1]
                           THEN WriteFile(d, documents[1].id, documents[1].content)
                           ELSE [q \in (DOMAIN d) \ {documents[1].id} |-> d[q]],
                           Tail(documents), Tail(succeeded))
RECURSIVE Uploaded(_, _, _)
Uploaded(d, documents, succeeded) ==
    IF Len(documents) = 0 THEN d
    ELSE Uploaded(IF succeeded[1]
                  THEN WriteFile(d, documents[1].id, documents[1].content)
                  ELSE d,
                  Tail(documents), Tail(succeeded))

\* for i in range(5) in create_index
CountAttempts == 5

\* the get_document_count() requests of read_and_index_documents: how many
\* were issued and whether the last one raised; create_index asks again
\* while the count is 0
CountRequestsAnyScript(s, nonEmpty) ==
    { c \in [requests : 1..CountAttempts, raised : BOOLEAN] :
        (c.requests < CountAttempts /\ ~c.raised) => nonEmpty }
CountRequests(s, nonEmpty) ==
    IF s = "create_index"
    THEN { c \in [requests : 1..CountAttempts, raised : BOOLEAN] :
             (c.requests < CountAttempts /\ ~c.raised) => nonEmpty }
    ELSE [requests : {1}, raised : BOOLEAN]

NoIndexLog ==
    [read |-> "none", documents |-> <<>>, upload |-> "none", succeeded |-> <<>>,
     count |-> "none"]

IndexLog(read, documents, upload, succeeded, count) ==
    [read |-> read, documents |-> documents, upload |-> upload,
     succeeded |-> succeeded, count |-> count]

\* what read_and_index_documents may come to on the files and the index
IndexingOutcomes(s, files, ix) ==
    LET r == ReadFiles(files, <<>>)
        n == Len(r.documents)
        stopped(read, upload, requests) ==
            [index |-> ix, log |-> IndexLog(read, r.documents, upload, <<>>, "none"),
             calls |-> requests, raised |-> TRUE]
        sent == [NoCalls EXCEPT !.upload = 1]
    IN  { stopped("listdir_error", "none", NoCalls) }
        \cup (IF r.raised THEN { stopped("decode_error", "none", NoCalls) }
              ELSE { stopped("ok", "raise", sent) }
                   \cup (IF ~ix.exists THEN {}
                         ELSE UNION {
                                { [index |-> [ix EXCEPT !.docs = Uploaded(@, r.documents, f)],
                                   log |-> IndexLog("ok", r.documents, "ok", f,
                                                   IF c.raised THEN "raise" ELSE "ok"),
                                   calls |-> [sent EXCEPT !.count = c.requests],
                                   raised |-> c.raised] :
                                  c \in CountRequests(s,
                                         DOMAIN Uploaded(ix.docs, r.documents, f) # {}) } :
                                f \in [1..n -> BOOLEAN] }))

\* where main goes on after read_and_index_documents
AfterIndexing(s) ==
    IF s = "create_index" THEN "done"
    ELSE IF s \in AllLabelsScripts THEN "load"
    ELSE "count"

IdleIndex ==
    /\ dir = <<>>
    /\ index = EmptyIndex
    /\ indexLog = NoIndexLog
    /\ deleteOutcome = "none"

-----------------------------------------------------------------------------
(* main() of the counting scripts *)

AllLabels == script \in AllLabelsScripts

\* the argument of the count_incidents call main is about to make
query_incident == IF AllLabels THEN incident_types[idx].term ELSE argv[1]

MainExceptReraises == "crashed"
\* main's "except Exception as e": the error is logged, the notice printed,
\* and main returns
MainExcept == "aborted"

\* the first step of main's try block
FirstStep(s) ==
    IF s = "create_index" THEN "delete"
    ELSE IF s = "discover_azureai" THEN "discover"
    ELSE IF CreatesIndex(s) THEN "create"
    ELSE IF IndexesDocuments(s) THEN "index"
    ELSE IF s \in AllLabelsScripts THEN "load"
    ELSE "arg"

\* "if not results": the search found nothing
NoResultsNever(d) == FALSE
NoResults(d) == Len(d) = 0

\* the record main appends for a label
NewRecordSwapped(incident_type, ground_truth_count, discovered_count) ==
    Record(incident_type, discovered_count, ground_truth_count)
NewRecord(incident_type, ground_truth_count, discovered_count) ==
    Record(incident_type, ground_truth_count, discovered_count)

IdleCall ==
    /\ searchOutcome = "none"
    /\ query = <<>>
    /\ docs = <<>>
    /\ downOutcome = "none"
    /\ key_phrases = <<>>
    /\ completion = <<>>
    /\ ret = <<>>
    /\ calls = NoCalls

\* the discovery script is not running
IdleDiscover ==
    /\ top_n = 0
    /\ batch_size = 0
    /\ found = 0
    /\ batchStart = 0
    /\ attempt = 0
    /\ all_incidents = <<>>
    /\ batchLog = <<>>
    /\ batches = <<>>
    /\ top_incidents = <<>>
    /\ waits = <<>>
    /\ delayLog = <<>>

Init ==
    /\ script \in Scripts
    /\ configFile \in (IF AllLabels THEN Configs ELSE { <<>> })
    /\ argv \in (IF AllLabels THEN { <<>> }
                 ELSE { <<l>> : l \in Labels }
                      \cup (IF script = "query_openai" THEN { <<>> } ELSE {}))
    /\ incident_types = <<>>
    /\ pc = FirstStep(script)
    /\ idx = 1
    /\ results = <<>>
    /\ IdleCall
    /\ failedLabels = {}
    /\ jsonFile = NoFile
    /\ csvFile = NoFile
    /\ output = DefaultOutput(script)
    /\ NewWorld
    /\ dir = << DataFile(Name_a, "ok", <<" ", "A", "\n">>) >>
    /\ index = EmptyIndex
    /\ indexLog = NoIndexLog
    /\ deleteOutcome = "none"
    /\ IdleDiscover

unchangedCall ==
    UNCHANGED <<searchOutcome, query, docs, downOutcome, key_phrases, completion, ret, calls>>

unchangedArgs ==
    UNCHANGED <<script, argv, configFile, output, now, dir, discVars, startVars>>

unchangedInputs == unchangedArgs /\ UNCHANGED <<index, indexLog, deleteOutcome>>

\* create_search_index(): create_or_update_index creates the index when
\* there is none; an exception is logged and re-raised to main
CreateSearchIndex ==
    /\ pc = "create"
    /\ calls' = [NoCalls EXCEPT !.create_index = 1]
    /\ \E ok \in BOOLEAN :
         /\ pc' = IF ok THEN "index" ELSE MainExcept
         /\ index' = IF ok THEN [index EXCEPT !.exists = TRUE] ELSE index
    /\ unchangedArgs
    /\ UNCHANGED <<searchOutcome, query, docs, downOutcome, key_phrases, completion, ret>>
    /\ UNCHANGED <<incident_types, idx, results, failedLabels, jsonFile, csvFile, fs,
                   runLog, indexLog, deleteOutcome>>

ReadAndIndexDocumentsSwallows ==
    /\ pc = "index"
    /\ \E o \in IndexingOutcomes(script, dir, index) :
         /\ index' = o.index
         /\ indexLog' = o.log
         /\ calls' = o.calls
         /\ pc' = AfterIndexing(script)
    /\ unchangedArgs
    /\ UNCHANGED <<searchOutcome, query, docs, downOutcome, key_phrases, completion, ret>>
    /\ UNCHANGED <<incident_types, idx, results, failedLabels, jsonFile, csvFile, fs,
                   runLog, deleteOutcome>>
\* read_and_index_documents(DATA_DIR): the files are read, the documents
\* uploaded in one request and the document count asked for; an exception
\* is logged and re-raised to main
ReadAndIndexDocuments ==
    /\ pc = "index"
    /\ \E o \in IndexingOutcomes(script, dir, index) :
         /\ index' = o.index
         /\ indexLog' = o.log
         /\ calls' = o.calls
         /\ pc' = IF o.raised THEN MainExcept ELSE AfterIndexing(script)
    /\ unchangedArgs
    /\ UNCHANGED <<searchOutcome, query, docs, downOutcome, key_phrases, completion, ret>>
    /\ UNCHANGED <<incident_types, idx, results, failedLabels, jsonFile, csvFile, fs,
                   runLog, deleteOutcome>>

DeleteIndexIfExistsPassesOver ==
    /\ pc = "delete"
    /\ calls' = [NoCalls EXCEPT !.delete_index = 1]
    /\ \E o \in (IF index.exists THEN {"deleted", "error"}
                 ELSE {"ResourceNotFound", "error"}) :
         /\ pc' = "create"
         /\ index' = IF o = "deleted" THEN NoIndex ELSE index
         /\ deleteOutcome' = o
    /\ unchangedArgs
    /\ UNCHANGED <<searchOutcome, query, docs, downOutcome, key_phrases, completion, ret>>
    /\ UNCHANGED <<incident_types, idx, results, failedLabels, jsonFile, csvFile, fs,
                   runLog, indexLog>>
\* create_index: delete_index_if_exists(); a ResourceNotFound error is
\* logged and passed over, any other is logged and re-raised to main
DeleteIndexIfExists ==
    /\ pc = "delete"
    /\ calls' = [NoCalls EXCEPT !.delete_index = 1]
    /\ \E o \in (IF index.exists THEN {"deleted", "error"}
                 ELSE {"ResourceNotFound", "error"}) :
         /\ pc' = IF o = "error" THEN MainExcept ELSE "create"
         /\ index' = IF o = "deleted" THEN NoIndex ELSE index
         /\ deleteOutcome' = o
    /\ unchangedArgs
    /\ UNCHANGED <<searchOutcome, query, docs, downOutcome, key_phrases, completion, ret>>
    /\ UNCHANGED <<incident_types, idx, results, failedLabels, jsonFile, csvFile, fs,
                   runLog, indexLog>>

\* query_openai: "if args.incident_type is None": usage message, return
CheckArgument ==
    /\ pc = "arg"
    /\ pc' = IF argv = <<>> THEN "done" ELSE "count"
    /\ unchangedInputs /\ unchangedCall
    /\ UNCHANGED <<incident_types, idx, results, failedLabels, jsonFile, csvFile, fs, runLog>>

\* incident_types = load_incident_types()
LoadIncidentTypes ==
    /\ pc = "load"
    /\ \E ok \in BOOLEAN :
         /\ pc' = IF ok THEN "count" ELSE MainExcept
         /\ incident_types' =
                IF ok THEN load_incident_types(script, configFile) ELSE incident_types
    /\ unchangedInputs /\ unchangedCall
    /\ UNCHANGED <<idx, results, failedLabels, jsonFile, csvFile, fs, runLog>>

HasLabel == IF AllLabels THEN idx <= Len(incident_types) ELSE TRUE

\* how a count_incidents outcome r leaves the call
Leave(r, failed) ==
    /\ ret' = r.ret
    /\ pc' = IF r.raised THEN MainExcept ELSE "returned"
    /\ failedLabels' = IF failed THEN failedLabels \cup {idx} ELSE failedLabels

\* count_incidents: results = list(search_client.search(query_incident, top=..))
\* and the "if not results" test
Search ==
    /\ pc = "count"
    /\ HasLabel
    /\ calls' = [NoCalls EXCEPT !.search = 1]
    /\ query' = query_incident
    /\ \/ /\ searchOutcome' = "error"
          /\ docs' = <<>>
          /\ Leave(CountExcept, TRUE)
       \/ \E d \in SearchLists :
            /\ searchOutcome' = "ok"
            /\ docs' = d
            /\ IF NoResults(d)
               THEN Leave(Returned(0), FALSE)
               ELSE /\ pc' = "downstream"
                    /\ UNCHANGED <<ret, failedLabels>>
    /\ unchangedInputs
    /\ UNCHANGED <<incident_types, idx, results, downOutcome, key_phrases,
                   completion, jsonFile, csvFile, fs, runLog>>

\* count_incidents, lexical variant: the key-phrase call and the counting
ExtractKeyPhrases ==
    /\ pc = "downstream"
    /\ Lexical(script)
    /\ calls' = [calls EXCEPT !.key_phrases = @ + 1]
    /\ \E o \in KeyPhraseOutcomes :
         /\ downOutcome' = o.kind
         /\ key_phrases' = o.phrases
         /\ Leave(LexicalCount(query_incident, docs, o),
                  o.kind \in {"raise", "doc_error"})
    /\ unchangedInputs
    /\ UNCHANGED <<incident_types, idx, results, searchOutcome, query, docs, completion,
                   jsonFile, csvFile, fs, runLog>>

\* count_incidents, model-delegated variant: the completion call and int()
ChatCompletion ==
    /\ pc = "downstream"
    /\ ~Lexical(script)
    /\ calls' = [calls EXCEPT !.chat = @ + 1]
    /\ \E o \in CompletionOutcomes :
         /\ downOutcome' = o.kind
         /\ completion' = o.text
         /\ Leave(ModelCount(o), o.kind # "ok" \/ ~PyInt(o.text).ok)
    /\ unchangedInputs
    /\ UNCHANGED <<incident_types, idx, results, searchOutcome, query, docs, key_phrases,
                   jsonFile, csvFile, fs, runLog>>

resetCall ==
    /\ searchOutcome' = "none"
    /\ query' = <<>>
    /\ docs' = <<>>
    /\ downOutcome' = "none"
    /\ key_phrases' = <<>>
    /\ completion' = <<>>
    /\ ret' = <<>>
    /\ calls' = NoCalls

AppendResultUnlessFailed ==
    /\ pc = "returned"
    /\ AllLabels
    /\ results' = IF idx \in failedLabels THEN results
                  ELSE Append(results,
                              NewRecord(incident_types[idx].term,
                                        incident_types[idx].count, ret[1]))
    /\ idx' = idx + 1
    /\ pc' = "count"
    /\ resetCall
    /\ unchangedInputs
    /\ UNCHANGED <<incident_types, failedLabels, jsonFile, csvFile, fs, runLog>>
\* all-labels scripts: results.append({...}), next label
AppendResult ==
    /\ pc = "returned"
    /\ AllLabels
    /\ results' = Append(results,
                         NewRecord(incident_types[idx].term,
                                   incident_types[idx].count, ret[1]))
    /\ idx' = idx + 1
    /\ pc' = "count"
    /\ resetCall
    /\ unchangedInputs
    /\ UNCHANGED <<incident_types, failedLabels, jsonFile, csvFile, fs, runLog>>

\* all-labels scripts: the loop is over; query_azureai_all sorts the results
FinishLoop ==
    /\ pc = "count"
    /\ AllLabels
    /\ idx > Len(incident_types)
    /\ results' = ReportList(script, results)
    /\ pc' = "report"
    /\ unchangedInputs /\ unchangedCall
    /\ UNCHANGED <<incident_types, idx, failedLabels, jsonFile, csvFile, fs, runLog>>

\* generate_report(results, args.output): the JSON file, then the CSV file;
\* an error opening either file reaches main's except clause
GenerateReport ==
    /\ pc = "report"
    /\ LET jp == JsonReportPath(script, output, Timestamp(now))
           cp == CsvReportPath(script, output, Timestamp(now))
       IN  \E o \in {"ok", "json_open_fails", "csv_open_fails"} :
             /\ jsonFile' = IF o = "json_open_fails" THEN jsonFile
                            ELSE File(JsonDump(results))
             /\ csvFile' = IF o = "ok" THEN File(CsvWrite(results)) ELSE csvFile
             /\ fs' = FilesAfter(fs, o, jp, JsonDump(results), cp, CsvWrite(results))
             /\ runLog' = Append(runLog, Written(script, output, o, jp, cp))
             /\ pc' = IF o = "ok" THEN "done" ELSE MainExcept
    /\ unchangedInputs /\ unchangedCall
    /\ UNCHANGED <<incident_types, idx, results, failedLabels>>

\* single-label scripts: print the total count
PrintTotal ==
    /\ pc = "returned"
    /\ ~AllLabels
    /\ pc' = "done"
    /\ unchangedInputs /\ unchangedCall
    /\ UNCHANGED <<incident_types, idx, results, failedLabels, jsonFile, csvFile, fs, runLog>>

Next ==
    \/ CreateSearchIndex
    \/ ReadAndIndexDocuments
    \/ CheckArgument
    \/ LoadIncidentTypes
    \/ Search
    \/ ExtractKeyPhrases
    \/ ChatCompletion
    \/ AppendResult
    \/ FinishLoop
    \/ GenerateReport
    \/ PrintTotal

Spec == Init /\ [][Next]_vars

-----------------------------------------------------------------------------
(* The start of the process: module initialisation under any settings *)

SettingStates == {"missing", "wrong", "valid"}

\* the settings a script may find: those it does not read are left valid
Envs(s) ==
    { e \in [Settings -> SettingStates] :
        \A k \in Settings \ SettingsOf(s) : e[k] = "valid" }

StartScripts == Scripts \cup {"create_index", "discover_azureai"}

InitStartup ==
    /\ script \in StartScripts
    /\ env \in Envs(script)
    /\ initError = "none"
    /\ pc = "init"
    /\ argv = IF script \in SingleLabelScripts THEN <<L_a>> ELSE <<>>
    /\ configFile = <<>>
    /\ incident_types = <<>>
    /\ idx = 1
    /\ results = <<>>
    /\ IdleCall
    /\ failedLabels = {}
    /\ jsonFile = NoFile
    /\ csvFile = NoFile
    /\ output = DefaultOutput(script)
    /\ now = 0
    /\ fs = NoFiles
    /\ runLog = <<>>
    /\ IdleIndex
    /\ IdleDiscover

\* the module is imported: the credentials and the clients are built; an
\* exception ends the process before main() is called
ModuleInit ==
    /\ pc = "init"
    /\ initError' = (IF module_init(script, env) = "ok" THEN "none"
                     ELSE module_init(script, env))
    /\ pc' = IF module_init(script, env) = "ok" THEN FirstStep(script) ELSE "crashed"
    /\ UNCHANGED <<script, argv, configFile, incident_types, idx, results,
                   failedLabels, jsonFile, csvFile, output, env>>
    /\ unchangedCall
    /\ UNCHANGED <<discVars, worldVars, indexVars>>

NextStartup == ModuleInit

SpecStartup == InitStartup /\ [][NextStartup]_vars

\* a setting the script reads is missing or wrong
BadSettings == \E k \in SettingsOf(script) : env[k] # "valid"

\* C14: when a key or endpoint the script reads is missing or invalid,
\* module initialisation has logged an error and the process has aborted:
\* main() has not been entered and no request was made to a service.
C14_BadSettingsAbortLogged ==
    (pc # "init" /\ BadSettings) =>
       /\ pc = "crashed"
       /\ initError = "logged"
       /\ calls = NoCalls

-----------------------------------------------------------------------------
(* The document loader on its own: any directory, any earlier index *)

\* the scripts that upload documents
IndexScripts == {"create_index", "query_azure_search_all", "query_all", "query_azureai"}

InitIndex ==
    /\ script \in IndexScripts
    /\ argv = IF script = "query_azureai" THEN <<L_a>> ELSE <<>>
    /\ configFile = <<>>
    /\ incident_types = <<>>
    /\ pc = FirstStep(script)
    /\ idx = 1
    /\ results = <<>>
    /\ IdleCall
    /\ failedLabels = {}
    /\ jsonFile = NoFile
    /\ csvFile = NoFile
    /\ output = DefaultOutput(script)
    /\ NewWorld
    /\ dir \in Directories
    /\ index \in {NoIndex, EmptyIndex, PriorIndex}
    /\ indexLog = NoIndexLog
    /\ deleteOutcome = "none"
    /\ IdleDiscover

NextIndex ==
    \/ DeleteIndexIfExists
    \/ CreateSearchIndex
    \/ ReadAndIndexDocuments

SpecIndex == InitIndex /\ [][NextIndex]_vars

\* the positions in dir of the *.txt files
TxtFiles == { i \in 1..Len(dir) : EndsWith(dir[i].name, Ext_txt) }

\* the upload of the document of file i was sent and reported as succeeded
UploadSucceeded(i) ==
    \E k \in 1..Len(indexLog.succeeded) :
       /\ indexLog.documents[k].id = encode_filename(dir[i].name)
       /\ indexLog.succeeded[k]

\* the document of file i was sent to the index
Sent(i) ==
    /\ indexLog.upload # "none"
    /\ \E k \in 1..Len(indexLog.documents) :
          indexLog.documents[k] =
             Document(encode_filename(dir[i].name), Strip(dir[i].content))

\* C13: when read_and_index_documents has run and no request as a whole
\* failed (listing the directory, the upload request, the count request), it
\* has returned normally, whatever the errors on single documents, and every
\* *.txt file that can be read and decoded was sent to the index and, unless
\* the index reported its upload as failed, is stored there with its content.
C13_OnlyFailedDocumentSkipped ==
    (/\ indexLog.read \notin {"none", "listdir_error"}
     /\ indexLog.upload # "raise"
     /\ indexLog.count # "raise")
    => /\ pc # "aborted"
       /\ \A i \in TxtFiles :
             dir[i].kind = "ok" =>
                /\ Sent(i)
                /\ UploadSucceeded(i) =>
                      /\ encode_filename(dir[i].name) \in DOMAIN index.docs
                      /\ index.docs[encode_filename(dir[i].name)] = Strip(dir[i].content)

-----------------------------------------------------------------------------
(* The order of the requests of an all-labels run *)

\* the step issues the search request of label idx
IssuesSearch == searchOutcome = "none" /\ searchOutcome' # "none"

\* the step issues the key-phrase or completion request of label idx
IssuesDownstream == downOutcome = "none" /\ downOutcome' # "none"

\* no request of a label is issued or answered and not yet recorded, and
\* the records of the labels before idx are appended
PreviousLabelsFinished ==
    /\ Len(results) = idx - 1
    /\ downOutcome = "none"
    /\ ret = <<>>
    /\ calls.search = 0 /\ calls.key_phrases = 0 /\ calls.chat = 0

\* C20: in an all-labels run the search request of a label is issued only
\* when the search and the key-phrase or completion request of every earlier
\* label have finished and their records are appended, and the key-phrase or
\* completion request of a label only after its own search has finished and
\* before any other request.
C20_LabelsOneAfterAnother ==
    [][AllLabels =>
         /\ IssuesSearch => PreviousLabelsFinished
         /\ IssuesDownstream =>
               /\ searchOutcome = "ok"
               /\ Len(results) = idx - 1
               /\ calls.search = 1 /\ calls.key_phrases = 0 /\ calls.chat = 0]_vars

\* the requests of the second label are under way, the first label failed
C20_Witness ==
    /\ AllLabels
    /\ idx = 2
    /\ pc = "downstream"
    /\ searchOutcome = "ok"
    /\ Len(results) = 1
    /\ 1 \in failedLabels

\* the runs that count one label: a single-label script, or an all-labels
\* script with at most one configured label
InitOneLabel == Init /\ Len(configFile) <= 1

SpecOneLabel == InitOneLabel /\ [][Next]_vars

\* the start positions at which the lower-cased label matches the
\* lower-cased text
MatchPositions(text, label) ==
    { i \in 1..Len(text) : MatchAt(LowerStr(text), LowerStr(label), i) }

\* every start position counts, overlapping occurrences included
OverlappingOccurrences(text, label) == Cardinality(MatchPositions(text, label))

\* the largest number of occurrences no two of which share a character
DisjointOccurrences(text, label) ==
    LET disjoint(P) == \A i, j \in P : i < j => i + Len(label) <= j
        sizes == { Cardinality(P) : P \in { R \in SUBSET MatchPositions(text, label) :
                                              disjoint(R) } }
    IN  CHOOSE n \in sizes : \A m \in sizes : m <= n

\* a lexical count_incidents call has returned after a successful key-phrase
\* call with phrases none of which contains the label, so that the value
\* returned is content_count
ReturnedContentCount ==
    /\ Lexical(script)
    /\ pc = "returned"
    /\ searchOutcome = "ok"
    /\ downOutcome = "ok"
    /\ Len(key_phrases) > 0
    /\ \A k \in 1..Len(key_phrases) :
          MatchPositions(key_phrases[k], query_incident) = {}

\* C22 as stated: content_count is the number of start positions at which
\* the lower-cased label matches the lower-cased concatenated text,
\* overlapping occurrences included ("aa" in "aaa" counts 2).
C22_CountsOverlappingOccurrences ==
    ReturnedContentCount =>
       ret = << OverlappingOccurrences(combined_content(docs), query_incident) >>

\* C22 as amended: content_count is the number of case-insensitive
\* occurrences of the label in the concatenated text that do not overlap,
\* as str.count finds them ("aa" in "aaa" counts 1).
C22_CountsDisjointOccurrences ==
    ReturnedContentCount =>
       ret = << DisjointOccurrences(combined_content(docs), query_incident) >>

\* label "aa", one document "Aaa", key phrase "b": the count is 1
C22_Witness ==
    /\ ReturnedContentCount
    /\ query_incident = L_aa
    /\ docs = << <<"A", "a", "a">> >>
    /\ ret = <<1>>

-----------------------------------------------------------------------------
(* query_azure_search_all on configured labels with spaces and quotes *)

\* the number of labels of the configuration file
MaxQuotedLabels == 2

L_quoted_a == <<Q, Q, Q, "a", Q, Q, Q>>
L_quoted_a_b == <<Q, Q, Q, "a", " ", "b", Q, Q, Q>>

\* labels with and without a space, two of them already in triple quotes
QuotedLabels == {L_a, L_a_b, L_quoted_a, L_quoted_a_b}

RECURSIVE QuotedConfigsOfLen(_)
QuotedConfigsOfLen(n) ==
    IF n = 0 THEN { <<>> }
    ELSE { Append(c, [term |-> t, count |-> 1]) :
             c \in QuotedConfigsOfLen(n - 1), t \in QuotedLabels }

QuotedConfigs ==
    { c \in UNION { QuotedConfigsOfLen(n) : n \in 0..MaxQuotedLabels } :
        DistinctTerms(c) }

InitQuoted ==
    /\ script = "query_azure_search_all"
    /\ configFile \in QuotedConfigs
    /\ argv = <<>>
    /\ incident_types = <<>>
    /\ pc = FirstStep(script)
    /\ idx = 1
    /\ results = <<>>
    /\ IdleCall
    /\ failedLabels = {}
    /\ jsonFile = NoFile
    /\ csvFile = NoFile
    /\ output = DefaultOutput(script)
    /\ NewWorld
    /\ dir = << DataFile(Name_a, "ok", <<" ", "A", "\n">>) >>
    /\ index = EmptyIndex
    /\ indexLog = NoIndexLog
    /\ deleteOutcome = "none"
    /\ IdleDiscover

NextQuoted ==
    \/ ReadAndIndexDocuments
    \/ LoadIncidentTypes
    \/ Search
    \/ ExtractKeyPhrases
    \/ AppendResult
    \/ FinishLoop
    \/ GenerateReport

SpecQuoted == InitQuoted /\ [][NextQuoted]_vars

\* the label in three double-quote characters on each side when it
\* contains a space, the label itself when it does not
Rewritten(label) ==
    IF \E i \in 1..Len(label) : label[i] = " "
    THEN <<Q, Q, Q>> \o label \o <<Q, Q, Q>>
    ELSE label

\* load_incident_types has returned
Loaded == pc \in {"count", "downstream", "returned", "report", "done"}

\* C23: in query_azure_search_all, once load_incident_types has returned,
\* there is one entry per configured label, in the file's order and with
\* its count, under the label rewritten (in three double quotes on each side
\* when it contains a space, unchanged otherwise); no two entries have the
\* same key; the rewritten string is the search text sent, the string
\* phrase_count and content_count match against, and the name of the record.
C23_LabelsRewritten ==
    Loaded =>
       /\ Len(incident_types) = Len(configFile)
       /\ \A i \in 1..Len(configFile) :
             /\ incident_types[i].term = Rewritten(configFile[i].term)
             /\ incident_types[i].count = configFile[i].count
       /\ \A i, j \in 1..Len(incident_types) :
             incident_types[i].term = incident_types[j].term => i = j
       /\ query # <<>> => query = Rewritten(configFile[idx].term)
       /\ (pc = "returned" /\ downOutcome = "ok" /\ Len(key_phrases) > 0) =>
             ret = << Max(DisjointOccurrences(combined_content(docs),
                                              Rewritten(configFile[idx].term)),
                          Cardinality({ k \in 1..Len(key_phrases) :
                             MatchPositions(key_phrases[k],
                                            Rewritten(configFile[idx].term)) # {} })) >>
       /\ Len(results) <= Len(configFile)
       /\ \A i \in 1..Len(results) : results[i].name = Rewritten(configFile[i].term)

\* labels "a b" and """a b""" were counted and reported under different
\* names, the first one found once in the document """A b"""
C23_Witness ==
    /\ pc = "done"
    /\ Len(results) = 2
    /\ configFile[1].term = L_a_b
    /\ configFile[2].term = L_quoted_a_b
    /\ results[1].name = L_quoted_a_b
    /\ results[1].discovered_count = 1
    /\ results[2].name = <<Q, Q, Q>> \o L_quoted_a_b \o <<Q, Q, Q>>
    /\ jsonFile.exists

\* the scripts of the lexical variant that count every configured label
LexicalAllLabels == script \in {"query_azure_search_all", "query_all"}

\* read_and_index_documents has returned normally
UploadFinished ==
    /\ indexLog.read = "ok"
    /\ indexLog.upload = "ok"
    /\ indexLog.count = "ok"

\* read_and_index_documents has raised
UploadRaised ==
    \/ indexLog.read \in {"listdir_error", "decode_error"}
    \/ indexLog.upload = "raise"
    \/ indexLog.count = "raise"

\* a label has been queried
LabelQueried ==
    \/ searchOutcome # "none"
    \/ calls.search > 0
    \/ Len(results) > 0
    \/ failedLabels # {}

ReportWritten == fs # NoFiles \/ jsonFile.exists \/ csvFile.exists

\* C21: in a lexical all-labels script a label is queried only after the
\* upload has finished, a report file is written only after every configured
\* label has been counted and its record appended, and when the upload step
\* raised the run is over with no label queried and no report file.
C21_PipelineInOrder ==
    LexicalAllLabels =>
       /\ LabelQueried => UploadFinished
       /\ ReportWritten =>
             /\ UploadFinished
             /\ idx = Len(incident_types) + 1
             /\ Len(results) = Len(incident_types)
       /\ UploadRaised =>
             /\ pc = "aborted"
             /\ ~LabelQueried
             /\ ~ReportWritten

\* a run that went through all the steps with two labels
C21_Witness ==
    /\ script = "query_all"
    /\ pc = "done"
    /\ UploadFinished
    /\ Len(incident_types) = 2
    /\ Len(results) = 2
    /\ jsonFile.exists /\ csvFile.exists

-----------------------------------------------------------------------------
(* The document identifier: one *.txt file of any name is indexed *)

\* the length of the part of a file name before ".txt"
MaxStem == 2

\* the characters of that part
StemChars == {"a", "b", "?", "~", ".", E_acute}

RECURSIVE StemsOfLen(_)
StemsOfLen(n) ==
    IF n = 0 THEN { <<>> }
    ELSE { <<c>> \o t : c \in StemChars, t \in StemsOfLen(n - 1) }

\* the *.txt file names os.listdir may return
TxtNames == { t \o Ext_txt : t \in UNION { StemsOfLen(n) : n \in 0..MaxStem } }

EncodeScripts == {"create_index", "query_azure_search_all"}

InitEncode ==
    /\ script \in EncodeScripts
    /\ argv = <<>>
    /\ configFile = <<>>
    /\ incident_types = <<>>
    /\ pc = FirstStep(script)
    /\ idx = 1
    /\ results = <<>>
    /\ IdleCall
    /\ failedLabels = {}
    /\ jsonFile = NoFile
    /\ csvFile = NoFile
    /\ output = DefaultOutput(script)
    /\ NewWorld
    /\ \E name \in TxtNames : dir = << DataFile(name, "ok", <<"x">>) >>
    /\ index = PriorIndex
    /\ indexLog = NoIndexLog
    /\ deleteOutcome = "none"
    /\ IdleDiscover

SpecEncode == InitEncode /\ [][NextIndex]_vars

\* base64.urlsafe_b64decode
B64Index(c) == CHOOSE i \in 0..63 : B64Alphabet[i + 1] = c

RECURSIVE B64Decode(_)
B64Decode(t) ==
    IF Len(t) < 4 THEN <<>>
    ELSE LET c1 == B64Index(t[1])
             c2 == B64Index(t[2])
         IN  IF t[3] = "=" THEN << c1 * 4 + c2 \div 16 >>
             ELSE IF t[4] = "="
                  THEN << c1 * 4 + c2 \div 16,
                          (c2 % 16) * 16 + B64Index(t[3]) \div 4 >>
             ELSE << c1 * 4 + c2 \div 16,
                     (c2 % 16) * 16 + B64Index(t[3]) \div 4,
                     (B64Index(t[3]) % 4) * 64 + B64Index(t[4]) >>
                  \o B64Decode(SubSeq(t, 5, Len(t)))

\* bytes.decode(): the text of UTF-8 bytes
RECURSIVE Decode(_)
Decode(b) ==
    IF Len(b) = 0 THEN <<>>
    ELSE LET c == CHOOSE c \in StemChars \cup {"t", "x"} :
                     /\ Len(Utf8(c)) <= Len(b)
                     /\ SubSeq(b, 1, Len(Utf8(c))) = Utf8(c)
         IN  <<c>> \o Decode(SubSeq(b, Len(Utf8(c)) + 1, Len(b)))

\* C19: the id read_and_index_documents gives to a *.txt file is that of
\* encode_filename on its name, the same id as on an earlier run (a file
\* indexed before is stored under the id it already had), different from the
\* id of every other *.txt file name, and base64url-decoding it and
\* appending ".txt" gives back the file name.
C19_IdentifierOfFileName ==
    indexLog.read = "ok" =>
       \A k \in 1..Len(indexLog.documents) :
          LET id == indexLog.documents[k].id
              name == dir[k].name
          IN  /\ id = encode_filename(name)
              /\ (script # "create_index" /\ name \in {Name_a, Name_e}) =>
                     DOMAIN index.docs = DOMAIN PriorIndex.docs
              /\ \A other \in TxtNames : other # name => encode_filename(other) # id
              /\ Decode(B64Decode(id)) \o Ext_txt = name

C19_Witness ==
    /\ pc = "done"
    /\ dir[1].name = <<E_acute, "?">> \o Ext_txt
    /\ indexLog.documents[1].id = <<"w", "6", "k", "_">>
    /\ DOMAIN index.docs = {indexLog.documents[1].id}

\* delete_index_if_exists returned normally
DeleteReturned == deleteOutcome \in {"deleted", "ResourceNotFound"}

\* C28: create_index.py deletes the index, then creates it, then uploads: the
\* create request is made only after the delete returned, a delete that
\* failed with ResourceNotFound counting as returned; the upload starts only
\* after a successful create, on the empty new index; any other failure of
\* the delete, or a failure of the create, ends the run with no upload.
C28_DeleteCreateUpload ==
    script = "create_index" =>
       /\ pc = "delete" =>
             (deleteOutcome = "none" /\ calls = NoCalls /\ indexLog = NoIndexLog)
       /\ pc = "create" =>
             (DeleteReturned /\ calls.create_index = 0 /\ indexLog = NoIndexLog)
       /\ pc = "index" =>
             /\ DeleteReturned
             /\ calls.create_index = 1
             /\ indexLog = NoIndexLog
             /\ index = EmptyIndex
       /\ indexLog # NoIndexLog => (DeleteReturned /\ pc \in {"done", "aborted"})
       /\ (DeleteReturned /\ calls.delete_index = 1) => pc = "create"
       /\ deleteOutcome = "error" =>
             (pc = "aborted" /\ calls.delete_index = 1 /\ indexLog = NoIndexLog)
       /\ (pc = "aborted" /\ calls.create_index = 1) => indexLog = NoIndexLog
       /\ calls.upload > 0 => indexLog.upload # "none"

\* there was no index: the delete failed with ResourceNotFound, the index was
\* created and a document uploaded
C28_Witness ==
    /\ script = "create_index"
    /\ deleteOutcome = "ResourceNotFound"
    /\ pc = "done"
    /\ indexLog.upload = "ok"
    /\ index.exists
    /\ index.docs # NoDocs

-----------------------------------------------------------------------------
(* Claims about count_incidents and the all-labels run *)

\* a count_incidents call is at, or past, its return
CallOver == pc \in {"returned", "done"}

\* the current count_incidents call hit an exception: the search, the
\* key-phrase call or the completion call failed, or int() raised
CountFailed ==
    \/ searchOutcome = "error"
    \/ downOutcome \in {"raise", "doc_error", "no_content"}
    \/ (~Lexical(script) /\ downOutcome = "ok" /\ ~PyInt(completion).ok)

\* C1: in the lexical variant, whenever the search found documents and the
\* key-phrase extraction succeeded (with any list of phrases, the empty one
\* included), the returned count is max(content_count, phrase_count).
C1_LexicalReturnsMax ==
    (/\ Lexical(script)
     /\ pc = "returned"
     /\ searchOutcome = "ok"
     /\ Len(docs) > 0
     /\ downOutcome = "ok")
    => ret = << Max(content_count(query_incident, combined_content(docs)),
                    phrase_count(query_incident, key_phrases)) >>

\* C2: in every variant, after a search that returned no document the call
\* has returned 0 and has issued no key-phrase and no completion request.
C2_EmptySearchReturnsZero ==
    (searchOutcome = "ok" /\ Len(docs) = 0)
    => (/\ CallOver
        /\ ret = <<0>>
        /\ calls.key_phrases = 0
        /\ calls.chat = 0)

C2_Witness ==
    /\ searchOutcome = "ok"
    /\ Len(docs) = 0
    /\ pc = "returned"
    /\ calls.search = 1

\* C3: every value count_incidents returns is a non-negative integer.
C3_CountNonNegative == ret # <<>> => ret[1] >= 0

\* C4: count_incidents never raises: main is never in its except clause
\* because of a count_incidents call, and a call in which the search, the
\* key-phrase call, the completion call or the integer parse failed has
\* returned 0.
C4_CountNeverRaises ==
    /\ searchOutcome # "none" => pc # "aborted"
    /\ CountFailed => (CallOver /\ ret = <<0>>)

C4_Witness ==
    /\ ~Lexical(script)
    /\ pc = "returned"
    /\ downOutcome = "ok"
    /\ ~PyInt(completion).ok
    /\ ret = <<0>>

\* C5: in an all-labels run a label whose count failed gets discovered_count
\* 0 and the run goes on: the loop is never left early (a run with a failed
\* label aborts only after every label was processed, in the report step),
\* and at the report step there is a record for every label; a finished run
\* has written both report files.
C5_FailedLabelCountsZero ==
    /\ (AllLabels /\ pc \in {"report", "done"}) =>
          /\ Len(results) = Len(incident_types)
          /\ \A i \in 1..Len(incident_types) :
                \E j \in 1..Len(results) :
                   /\ results[j].name = incident_types[i].term
                   /\ i \in failedLabels => results[j].discovered_count = 0
    /\ (AllLabels /\ pc = "aborted" /\ failedLabels # {}) =>
          idx > Len(incident_types)
    /\ (AllLabels /\ pc = "done") => (jsonFile.exists /\ csvFile.exists)

C5_Witness ==
    /\ AllLabels
    /\ pc = "done"
    /\ 1 \in failedLabels
    /\ Len(results) = 2
    /\ \E j \in 1..Len(results) : results[j].discovered_count > 0

\* a record's name is the configured label, bare or wrapped in three double
\* quotes on each side
NamesLabel(name, term) == name = term \/ name = <<Q, Q, Q>> \o term \o <<Q, Q, Q>>

C6_OneRecordPerLabel ==
    (AllLabels /\ pc \in {"report", "done"}) =>
       /\ Len(results) = Len(configFile)
       /\ \A i \in 1..Len(configFile) :
             /\ Cardinality({ j \in 1..Len(results) :
                                 NamesLabel(results[j].name, configFile[i].term) }) = 1
             /\ \A j \in 1..Len(results) :
                   NamesLabel(results[j].name, configFile[i].term)
                      => results[j].ground_truth_count = configFile[i].count

C6_RecordsKept ==
    \A i \in 1..Len(results) : \E j \in 1..Len(results') : results'[j] = results[i]

\* C6: the list handed to the report writer holds exactly one record per
\* label of the configuration file, with that label's ground_truth_count,
\* and every record, once appended, stays in the list unchanged.
C6_RecordsPerLabelImmutable == []C6_OneRecordPerLabel /\ [][C6_RecordsKept]_vars

C6_Witness ==
    /\ script = "query_azure_search_all"
    /\ pc = "done"
    /\ Len(results) = 2
    /\ \E j \in 1..Len(results) : results[j].name[1] = Q

\* the position of a label in the configuration file
ConfigPosition(name) == CHOOSE i \in 1..Len(configFile) : configFile[i].term = name

\* the records handed to the report writer of query_azureai_all
SortedForReport == script = "query_azureai_all" /\ pc \in {"report", "done"}

C26_SortedByGroundTruth ==
    SortedForReport =>
       /\ Len(results) = Len(configFile)
       /\ \A i, j \in 1..Len(results) :
             i < j =>
                /\ results[i].ground_truth_count >= results[j].ground_truth_count
                /\ results[i].ground_truth_count = results[j].ground_truth_count
                      => ConfigPosition(results[i].name) < ConfigPosition(results[j].name)

\* the step of the sort leaves every record in the list as often as before
C26_SortPermutes ==
    (script = "query_azureai_all" /\ pc = "count" /\ pc' = "report") =>
       /\ Len(results') = Len(results)
       /\ \A i \in 1..Len(results) :
             Cardinality({ j \in 1..Len(results') : results'[j] = results[i] })
                = Cardinality({ j \in 1..Len(results) : results[j] = results[i] })

\* C26: in query_azureai_all the records handed to the report writer are in
\* non-increasing ground_truth_count order, records with equal
\* ground_truth_count in the order of their labels in the configuration
\* file, and the sort only permutes the records.
C26_StableDescendingSort == []C26_SortedByGroundTruth /\ [][C26_SortPermutes]_vars

\* the second label has the larger count and comes first in the report
C26_Witness ==
    /\ script = "query_azureai_all"
    /\ pc = "done"
    /\ Len(configFile) = 2
    /\ configFile[1].count < configFile[2].count
    /\ results[1].name = configFile[2].term
    /\ results[2].name = configFile[1].term
    /\ jsonFile.text = JsonDump(results)

-----------------------------------------------------------------------------
(* Reading the report files back: json.load and csv.reader *)

RECURSIVE SkipWs(_, _)
SkipWs(t, i) == IF i <= Len(t) /\ IsSpace(t[i]) THEN SkipWs(t, i + 1) ELSE i

ParseFail == [ok |-> FALSE, val |-> <<>>, pos |-> 0]

Parsed(v, p) == [ok |-> TRUE, val |-> v, pos |-> p]

\* the characters of a JSON string from position i, up to its closing quote
RECURSIVE ScanString(_, _, _)
ScanString(t, i, acc) ==
    IF i > Len(t) THEN ParseFail
    ELSE IF t[i] = Q THEN Parsed(acc, i + 1)
    ELSE IF t[i] = "\\"
         THEN IF i + 1 > Len(t) THEN ParseFail
              ELSE CASE t[i + 1] = Q -> ScanString(t, i + 2, Append(acc, Q))
                     [] t[i + 1] = "\\" -> ScanString(t, i + 2, Append(acc, "\\"))
                     [] t[i + 1] = "n" -> ScanString(t, i + 2, Append(acc, "\n"))
                     [] t[i + 1] = "r" -> ScanString(t, i + 2, Append(acc, "\r"))
                     [] t[i + 1] = "t" -> ScanString(t, i + 2, Append(acc, "\t"))
                     [] OTHER -> ParseFail
    ELSE IF t[i] \in {"\n", "\r", "\t"} THEN ParseFail
    ELSE ScanString(t, i + 1, Append(acc, t[i]))

ParseString(t, i) ==
    IF i <= Len(t) /\ t[i] = Q THEN ScanString(t, i + 1, <<>>) ELSE ParseFail

RECURSIVE DigitsEnd(_, _)
DigitsEnd(t, i) == IF i <= Len(t) /\ IsDigit(t[i]) THEN DigitsEnd(t, i + 1) ELSE i

ParseNumber(t, i) ==
    LET neg == i <= Len(t) /\ t[i] = "-"
        s == IF neg THEN i + 1 ELSE i
        e == DigitsEnd(t, s)
    IN  IF e = s \/ (e - s > 1 /\ t[s] = "0") THEN ParseFail
        ELSE Parsed(IF neg THEN 0 - DigitsVal(SubSeq(t, s, e - 1), 0)
                    ELSE DigitsVal(SubSeq(t, s, e - 1), 0), e)

ParseScalar(t, i) ==
    IF i <= Len(t) /\ t[i] = Q THEN ParseString(t, i) ELSE ParseNumber(t, i)

\* "key": value, ... } from position i
RECURSIVE ParseMembers(_, _, _)
ParseMembers(t, i, acc) ==
    LET k == ParseString(t, i)
        c == SkipWs(t, k.pos)
        v == ParseScalar(t, SkipWs(t, c + 1))
        n == SkipWs(t, v.pos)
        acc2 == Append(acc, [key |-> k.val, val |-> v.val])
    IN  IF ~k.ok \/ c > Len(t) THEN ParseFail
        ELSE IF t[c] # ":" THEN ParseFail
        ELSE IF ~v.ok \/ n > Len(t) THEN ParseFail
        ELSE IF t[n] = "}" THEN Parsed(acc2, n + 1)
        ELSE IF t[n] = "," THEN ParseMembers(t, SkipWs(t, n + 1), acc2)
        ELSE ParseFail

KnownField(chars) == \E k \in 1..Len(FieldNames) : FieldChars(FieldNames[k]) = chars

FieldOf(chars) ==
    FieldNames[CHOOSE k \in 1..Len(FieldNames) : FieldChars(FieldNames[k]) = chars]

\* the dict of a list of members: a later member replaces an earlier one
DictOf(members) ==
    [f \in { FieldOf(members[m].key) : m \in 1..Len(members) } |->
        LET last == CHOOSE m \in 1..Len(members) :
                       /\ FieldOf(members[m].key) = f
                       /\ \A m2 \in 1..Len(members) :
                             FieldOf(members[m2].key) = f => m2 <= m
        IN  members[last].val]

ParseObject(t, i) ==
    IF i > Len(t) THEN ParseFail
    ELSE IF t[i] # "{" THEN ParseFail
    ELSE LET j == SkipWs(t, i + 1)
             m == ParseMembers(t, j, <<>>)
         IN  IF j > Len(t) THEN ParseFail
             ELSE IF t[j] = "}" THEN Parsed(<<>>, j + 1)
             ELSE IF ~m.ok THEN ParseFail
             ELSE IF \E x \in 1..Len(m.val) : ~KnownField(m.val[x].key) THEN ParseFail
             ELSE Parsed(DictOf(m.val), m.pos)

\* value, ... ] from position i
RECURSIVE ParseElements(_, _, _)
ParseElements(t, i, acc) ==
    LET v == ParseObject(t, i)
        n == SkipWs(t, v.pos)
    IN  IF ~v.ok \/ n > Len(t) THEN ParseFail
        ELSE IF t[n] = "]" THEN Parsed(Append(acc, v.val), n + 1)
        ELSE IF t[n] = "," THEN ParseElements(t, SkipWs(t, n + 1), Append(acc, v.val))
        ELSE ParseFail

ParseArray(t, i) ==
    IF i > Len(t) THEN ParseFail
    ELSE IF t[i] # "[" THEN ParseFail
    ELSE LET j == SkipWs(t, i + 1)
         IN  IF j > Len(t) THEN ParseFail
             ELSE IF t[j] = "]" THEN Parsed(<<>>, j + 1)
             ELSE ParseElements(t, j, <<>>)

\* json.load(f) of a file holding a list of objects: [ok, val]
JsonLoad(t) ==
    LET a == ParseArray(t, SkipWs(t, 1))
    IN  IF a.ok /\ SkipWs(t, a.pos) > Len(t)
        THEN [ok |-> TRUE, val |-> a.val]
        ELSE [ok |-> FALSE, val |-> <<>>]

\* csv.reader: an unquoted field (or the rest of a field after its closing
\* quote) runs up to the next delimiter or line end
RECURSIVE ScanPlain(_, _, _)
ScanPlain(t, i, acc) ==
    IF i > Len(t) THEN Parsed(acc, i)
    ELSE IF t[i] \in {",", "\r", "\n"} THEN Parsed(acc, i)
    ELSE ScanPlain(t, i + 1, Append(acc, t[i]))

\* csv.reader: inside a quoted field a doubled quote is one quote, a single
\* quote closes the quoted part
RECURSIVE ScanQuoted(_, _, _)
ScanQuoted(t, i, acc) ==
    IF i > Len(t) THEN Parsed(acc, i)
    ELSE IF t[i] # Q THEN ScanQuoted(t, i + 1, Append(acc, t[i]))
    ELSE IF i + 1 <= Len(t) /\ t[i + 1] = Q THEN ScanQuoted(t, i + 2, Append(acc, Q))
    ELSE ScanPlain(t, i + 1, acc)

CsvParseField(t, i) ==
    IF i <= Len(t) /\ t[i] = Q THEN ScanQuoted(t, i + 1, <<>>)
    ELSE ScanPlain(t, i, <<>>)

RECURSIVE CsvParseRow(_, _, _)
CsvParseRow(t, i, row) ==
    LET f == CsvParseField(t, i)
    IN  IF f.pos <= Len(t) /\ t[f.pos] = ","
        THEN CsvParseRow(t, f.pos + 1, Append(row, f.val))
        ELSE Parsed(Append(row, f.val), f.pos)

\* the position after the line end at position i: "\r\n", "\r" or "\n"
AfterLineEnd(t, i) ==
    IF i > Len(t) THEN i
    ELSE IF t[i] = "\r" /\ i + 1 <= Len(t) /\ t[i + 1] = "\n" THEN i + 2
    ELSE i + 1

RECURSIVE CsvParseRows(_, _, _)
CsvParseRows(t, i, rows) ==
    IF i > Len(t) THEN rows
    ELSE IF t[i] \in {"\r", "\n"}
         THEN CsvParseRows(t, AfterLineEnd(t, i), Append(rows, <<>>))
    ELSE LET r == CsvParseRow(t, i, <<>>)
         IN  CsvParseRows(t, AfterLineEnd(t, r.pos), Append(rows, r.val))

\* list(csv.reader(f)) of a file opened with newline='': the rows, each a
\* list of fields
CsvRead(t) == CsvParseRows(t, 1, <<>>)

-----------------------------------------------------------------------------
(* generate_report on its own: every list of records up to MaxRecords *)

MaxRecords == 2

\* names with the characters the two formats treat specially
ReportNames ==
    { <<"a">>,
      <<Q, Q, Q, "a", " ", "b", Q, Q, Q>>,
      <<"a", ",", "\\", "n">>,
      <<"\n", "b", "\r">> }

ReportRecords ==
    { Record(n, g, d) : n \in ReportNames, g \in {0, 12}, d \in {-3, 105} }

RECURSIVE RecordLists(_)
RecordLists(n) ==
    IF n = 0 THEN { <<>> }
    ELSE { Append(l, r) : l \in RecordLists(n - 1), r \in ReportRecords }

InitReport ==
    /\ script \in {"query_azure_search_all", "query_all", "query_azureai_all"}
    /\ argv = <<>>
    /\ configFile = <<>>
    /\ incident_types = <<>>
    /\ pc = "report"
    /\ idx = 1
    /\ results \in UNION { RecordLists(n) : n \in 0..MaxRecords }
    /\ IdleCall
    /\ failedLabels = {}
    /\ jsonFile = NoFile
    /\ csvFile = NoFile
    /\ output = DefaultOutput(script)
    /\ NewWorld
    /\ IdleIndex
    /\ IdleDiscover

NextReport == GenerateReport

SpecReport == InitReport /\ [][NextReport]_vars

ExpectedCsvRows(res) ==
    << << FieldChars("name"), FieldChars("ground_truth_count"),
          FieldChars("discovered_count") >> >>
    \o [i \in 1..Len(res) |->
          << res[i].name, IntStr(res[i].ground_truth_count),
             IntStr(res[i].discovered_count) >>]

\* C10: the CSV file generate_report wrote has N+1 rows: the header name,
\* ground_truth_count, discovered_count, then one row per record, in list
\* order, with the record's fields in that column order.
C10_CsvRows ==
    csvFile.exists =>
       /\ Len(CsvRead(csvFile.text)) = Len(results) + 1
       /\ CsvRead(csvFile.text) = ExpectedCsvRows(results)

C10_Witness ==
    /\ csvFile.exists
    /\ Len(results) = 2
    /\ results[1].name = <<Q, Q, Q, "a", " ", "b", Q, Q, Q>>
    /\ results[2].name = <<"\n", "b", "\r">>
    /\ Len(CsvRead(csvFile.text)) = 3

-----------------------------------------------------------------------------
(* discover_azureai.py: discover_incidents, write_top_incidents_to_files, main *)

\* discover_incidents(top_n=50, batch_size=10)
DefaultTopN == 50
DefaultBatchSize == 10

\* @retry(stop=stop_after_attempt(5), ...)
StopAfterAttempt == 5

TopNs == {1, 2, DefaultTopN}
BatchSizes == {1, 2, DefaultBatchSize}

\* an element of a parsed list: a string, or a value that cannot be a dict key
Str(c) == [hashable |-> TRUE, text |-> c]
Nested == [hashable |-> FALSE, text |-> <<"[", "]">>]

Cat_a == Str(<<"a">>)
Cat_b == Str(<<"b", ",", "c">>)
Cat_c == Str(<<"c">>)

\* the lists a completion may parse to
CategoryLists ==
    { <<>>,
      <<Cat_a, Cat_b>>,
      <<Cat_a, Cat_c>>,
      <<Cat_c, Cat_b, Cat_c>>,
      <<Cat_b>>,
      <<Cat_a, Nested>> }

\* what the handling of a response may come to: the clean-up or
\* ast.literal_eval raises, the value is not a list, or it is a list
Responses ==
    { [kind |-> k, items |-> <<>>] : k \in {"unparsable", "not_list"} }
    \cup { [kind |-> "list", items |-> l] : l \in CategoryLists }

\* the except clause of the batch loop: log, continue with the next batch
AfterFailedBatchBreak(start, size, n) == n
AfterFailedBatch(start, size, n) == start + size

\* incident_counts[incident] = incident_counts.get(incident, 0) + 1, on a
\* dict kept as a list of <<key, count>> in insertion order
DictIncr(d, k) ==
    IF \E j \in 1..Len(d) : d[j][1] = k
    THEN LET j == CHOOSE j \in 1..Len(d) : d[j][1] = k
         IN  [d EXCEPT ![j] = <<k, d[j][2] + 1>>]
    ELSE Append(d, <<k, 1>>)

RECURSIVE incident_counts(_, _)
incident_counts(incidents, d) ==
    IF Len(incidents) = 0 THEN d
    ELSE incident_counts(Tail(incidents), DictIncr(d, incidents[1].text))

\* sorted(items, key=lambda x: x[1], reverse=True): stable, descending
RECURSIVE InsertByCountUnstable(_, _)
InsertByCountUnstable(sorted, x) ==
    IF Len(sorted) = 0 THEN <<x>>
    ELSE IF sorted[1][2] <= x[2] THEN <<x>> \o sorted
    ELSE << sorted[1] >> \o InsertByCountUnstable(Tail(sorted), x)

RECURSIVE InsertByCount(_, _)
InsertByCount(sorted, x) ==
    IF Len(sorted) = 0 THEN <<x>>
    ELSE IF sorted[1][2] < x[2] THEN <<x>> \o sorted
    ELSE << sorted[1] >> \o InsertByCount(Tail(sorted), x)

RECURSIVE SortByCount(_, _)
SortByCount(items, acc) ==
    IF Len(items) = 0 THEN acc
    ELSE SortByCount(Tail(items), InsertByCount(acc, items[1]))

\* list[:n]
Take(list, n) == SubSeq(list, 1, IF n < Len(list) THEN n ELSE Len(list))

TopIncidentsOfHashable(incidents, n) ==
    Take(SortByCount(incident_counts(SelectSeq(incidents, LAMBDA x : x.hashable),
                                     <<>>), <<>>), n)
\* the counting and the top-N step of discover_incidents; an unhashable
\* element raises TypeError, which the outer except turns into []
TopIncidents(incidents, n) ==
    IF \E k \in 1..Len(incidents) : ~incidents[k].hashable THEN <<>>
    ELSE Take(SortByCount(incident_counts(incidents, <<>>), <<>>), n)

\* json.dump(top_incidents, f, indent=2): a list of [name, count] lists
JsonPair(p) ==
    Indent(IndentWidth) \o <<"[", "\n">>
        \o Indent(2 * IndentWidth) \o JsonString(p[1]) \o <<",", "\n">>
        \o Indent(2 * IndentWidth) \o IntStr(p[2]) \o <<"\n">>
        \o Indent(IndentWidth) \o <<"]">>

JsonDumpPairs(pairs) ==
    IF Len(pairs) = 0 THEN <<"[", "]">>
    ELSE <<"[", "\n">>
             \o Join(<<",", "\n">>, [k \in 1..Len(pairs) |-> JsonPair(pairs[k])])
             \o <<"\n", "]">>

IncidentsHeader ==
    << <<"i", "n", "c", "i", "d", "e", "n", "t", "_", "n", "a", "m", "e">>,
       <<"c", "o", "u", "n", "t">> >>

\* writer.writerow(['incident_name', 'count']), then a row per incident
CsvWritePairs(pairs) ==
    CsvRow(IncidentsHeader)
        \o Flatten([k \in 1..Len(pairs) |-> CsvRow(<<pairs[k][1], IntStr(pairs[k][2])>>)])

IdleRun ==
    /\ argv = <<>>
    /\ configFile = <<>>
    /\ incident_types = <<>>
    /\ idx = 1
    /\ results = <<>>
    /\ IdleCall
    /\ failedLabels = {}

InitDiscover ==
    /\ script = "discover_azureai"
    /\ pc = "discover"
    /\ IdleRun
    /\ jsonFile = NoFile
    /\ csvFile = NoFile
    /\ output = DefaultOutput(script)
    /\ NewWorld
    /\ IdleIndex
    /\ top_n \in TopNs
    /\ batch_size \in BatchSizes
    /\ found = 0
    /\ batchStart = 0
    /\ attempt = 0
    /\ all_incidents = <<>>
    /\ batchLog = <<>>
    /\ batches = <<>>
    /\ top_incidents = <<>>
    /\ waits = <<>>
    /\ delayLog = <<>>

unchangedRun ==
    UNCHANGED <<script, argv, configFile, output, now, indexVars, startVars,
                incident_types, idx, results,
                searchOutcome, query, docs, downOutcome, key_phrases, completion, ret,
                failedLabels>>

SliceUnclipped(i, j, n) == [first |-> i, last |-> j]
\* results[i:j] of a list of n documents, as the positions it holds
\* (counted from 0): from first up to last, last excluded
Slice(i, j, n) == [first |-> i, last |-> IF j < n THEN j ELSE n]

\* results = list(search_client.search("*", top=50)); "if not results"
DiscoverSearch ==
    /\ pc = "discover"
    /\ calls' = [NoCalls EXCEPT !.search = 1]
    /\ \/ /\ pc' = "discovered"
          /\ found' = 0
          /\ UNCHANGED <<batchStart, attempt, batches>>
       \/ \E n \in 0..MaxFound :
            /\ found' = n
            /\ IF n = 0
               THEN pc' = "discovered" /\ UNCHANGED <<batchStart, attempt, batches>>
               ELSE /\ pc' = "request" /\ batchStart' = 0 /\ attempt' = 1
                    /\ batches' = << Slice(0, batch_size, n) >>
    /\ unchangedRun
    /\ UNCHANGED <<jsonFile, csvFile, fs, runLog, top_n, batch_size, all_incidents, batchLog,
                   top_incidents, waits, delayLog>>

\* wait_exponential(multiplier=1, min=4, max=10)
WaitMultiplier == 1
WaitMin == 4
WaitMax == 10

Min(a, b) == IF a <= b THEN a ELSE b

\* the wait after the failed attempt number n: multiplier * 2^(n-1), kept
\* between min and max
WaitExponentialUnbounded(n) == WaitMultiplier * 2 ^ (n - 1)
WaitExponential(n) == Max(WaitMin, Min(WaitMultiplier * 2 ^ (n - 1), WaitMax))

\* the loop moves to the batch starting at s, or is over
EnterBatch(s) ==
    /\ batchStart' = s
    /\ attempt' = 1
    /\ waits' = <<>>
    /\ calls' = NoCalls
    /\ batches' = IF s < found THEN Append(batches, Slice(s, s + batch_size, found))
                  ELSE batches
    /\ pc' = IF s < found THEN "request" ELSE "aggregate"

\* the batch is handled: its outcome r and whether the loop body reached
\* time.sleep(2) go to the history
Handled(r, slept) ==
    /\ batchLog' = Append(batchLog, r)
    /\ delayLog' = Append(delayLog, slept)

\* one attempt of make_openai_request for the current batch, and, when it
\* returns or gives up, the rest of the loop body: an attempt that fails is
\* followed by a wait and the next attempt, the last one by RetryError,
\* which the except clause of the loop logs before it continues
Request ==
    /\ script = "discover_azureai"
    /\ pc = "request"
    /\ \/ /\ attempt < StopAfterAttempt
          /\ attempt' = attempt + 1
          /\ waits' = Append(waits, WaitExponential(attempt))
          /\ calls' = [NoCalls EXCEPT !.chat = attempt]
          /\ UNCHANGED <<pc, batchStart, all_incidents, batchLog, batches, delayLog>>
       \/ /\ attempt = StopAfterAttempt
          /\ Handled([kind |-> "retry_error", items |-> <<>>], FALSE)
          /\ EnterBatch(AfterFailedBatch(batchStart, batch_size, found))
          /\ UNCHANGED all_incidents
       \/ \E r \in Responses :
            /\ Handled(r, r.kind = "list")
            /\ IF r.kind = "list"
               THEN /\ all_incidents' = all_incidents \o r.items
                    /\ EnterBatch(batchStart + batch_size)
               ELSE /\ EnterBatch(AfterFailedBatch(batchStart, batch_size, found))
                    /\ UNCHANGED all_incidents
    /\ unchangedRun
    /\ UNCHANGED <<jsonFile, csvFile, fs, runLog, top_n, batch_size, found, top_incidents>>

\* discover_search: the key phrases extract_key_phrases may give for the
\* documents of a batch, those of the documents flagged is_error left out
PhraseLists == { <<>>, <<Cat_a>>, <<Str(<<"A">>), Cat_c>>, <<Cat_c, Cat_a>> }

\* discover_search: the request raises, or answers with the key phrases
KeyPhraseBatchOutcomes ==
    { [kind |-> "raise", items |-> <<>>] }
    \cup { [kind |-> "list", items |-> l] : l \in PhraseLists }

\* discover_search: one pass of the batch loop of find_top_incidents; an
\* exception of extract_key_phrases leaves the loop for the except clause
\* of the function, which logs it and returns []
ExtractBatch ==
    /\ script = "discover_search"
    /\ pc = "request"
    /\ calls' = [NoCalls EXCEPT !.key_phrases = 1]
    /\ \E r \in KeyPhraseBatchOutcomes :
         /\ batchLog' = Append(batchLog, r)
         /\ IF r.kind = "raise"
            THEN /\ top_incidents' = <<>>
                 /\ pc' = "discovered"
                 /\ UNCHANGED <<batchStart, all_incidents, batches>>
            ELSE /\ all_incidents' = all_incidents \o r.items
                 /\ batchStart' = batchStart + batch_size
                 /\ batches' = IF batchStart + batch_size < found
                               THEN Append(batches,
                                           Slice(batchStart + batch_size,
                                                 batchStart + 2 * batch_size, found))
                               ELSE batches
                 /\ pc' = IF batchStart + batch_size < found THEN "request"
                           ELSE "aggregate"
                 /\ UNCHANGED top_incidents
    /\ unchangedRun
    /\ UNCHANGED <<jsonFile, csvFile, fs, runLog, top_n, batch_size, found, attempt,
                   waits, delayLog>>

\* discover_search: Counter(phrase.lower() for ...).most_common(top_n)
MostCommon(phrases, n) ==
    Take(SortByCount(incident_counts([k \in 1..Len(phrases) |->
                                         Str(LowerStr(phrases[k].text))],
                                     <<>>), <<>>), n)

\* after the loop: count, sort, cut to top_n, return
Aggregate ==
    /\ pc = "aggregate"
    /\ top_incidents' = IF script = "discover_search"
                        THEN MostCommon(all_incidents, top_n)
                        ELSE TopIncidents(all_incidents, top_n)
    /\ pc' = "discovered"
    /\ unchangedRun
    /\ UNCHANGED calls
    /\ UNCHANGED <<jsonFile, csvFile, fs, runLog, top_n, batch_size, found, batchStart, attempt,
                   all_incidents, batchLog, batches, waits, delayLog>>

NothingDiscoveredWritten ==
    /\ script = "discover_azureai"
    /\ pc = "discovered"
    /\ Len(top_incidents) = 0
    /\ LET jp == JsonReportPath(script, output, Timestamp(now))
           cp == CsvReportPath(script, output, Timestamp(now))
       IN  /\ jsonFile' = File(JsonDumpPairs(top_incidents))
           /\ csvFile' = File(CsvWritePairs(top_incidents))
           /\ fs' = FilesAfter(fs, "ok", jp, JsonDumpPairs(top_incidents),
                               cp, CsvWritePairs(top_incidents))
           /\ runLog' = Append(runLog, Written(script, output, "ok", jp, cp))
    /\ pc' = "done"
    /\ unchangedRun
    /\ UNCHANGED calls
    /\ UNCHANGED discVars
\* main: "if not top_incidents": warn and return
NothingDiscovered ==
    /\ script = "discover_azureai"
    /\ pc = "discovered"
    /\ Len(top_incidents) = 0
    /\ pc' = "done"
    /\ unchangedRun
    /\ UNCHANGED calls
    /\ UNCHANGED <<jsonFile, csvFile, fs, runLog, discVars>>

\* main: write_top_incidents_to_files(top_incidents), which logs an error
\* and returns, then the printed list
WriteTopIncidents ==
    /\ script = "discover_azureai"
    /\ pc = "discovered"
    /\ Len(top_incidents) > 0
    /\ LET jp == JsonReportPath(script, output, Timestamp(now))
           cp == CsvReportPath(script, output, Timestamp(now))
       IN  \E o \in {"ok", "json_open_fails", "csv_open_fails"} :
             /\ jsonFile' = IF o = "json_open_fails" THEN jsonFile
                            ELSE File(JsonDumpPairs(top_incidents))
             /\ csvFile' = IF o = "ok" THEN File(CsvWritePairs(top_incidents))
                           ELSE csvFile
             /\ fs' = FilesAfter(fs, o, jp, JsonDumpPairs(top_incidents),
                                 cp, CsvWritePairs(top_incidents))
             /\ runLog' = Append(runLog, Written(script, output, o, jp, cp))
    /\ pc' = "done"
    /\ unchangedRun
    /\ UNCHANGED calls
    /\ UNCHANGED discVars

\* discover_search, main: write_top_incidents_to_json(top_incidents), which
\* logs an error and returns, then the printed list
WriteTopIncidentsToJson ==
    /\ script = "discover_search"
    /\ pc = "discovered"
    /\ \E ok \in BOOLEAN :
         /\ jsonFile' = IF ok THEN File(JsonDumpPairs(top_incidents)) ELSE jsonFile
         /\ fs' = IF ok THEN WriteFile(fs, DefaultOutputFile, JsonDumpPairs(top_incidents))
                  ELSE fs
    /\ pc' = "done"
    /\ unchangedRun
    /\ UNCHANGED <<calls, csvFile, runLog, discVars>>

NextDiscover ==
    \/ DiscoverSearch
    \/ Request
    \/ Aggregate
    \/ NothingDiscovered
    \/ WriteTopIncidents

SpecDiscover == InitDiscover /\ [][NextDiscover]_vars

\* the writer of this run hit an error: it ran and did not write both files
WriteFailed ==
    /\ Len(runLog) > 0
    /\ runLog[Len(runLog)].wrote # {"json", "csv"}

\* C12: in every script that writes a report, a run whose writer hit an
\* error while writing a report file is aborted: it is in main's except
\* clause, no later step has run and no success output was produced.
C12_WriteErrorAborts == WriteFailed => pc = "aborted"

\* the waits before the re-attempts of the current batch are those of
\* wait_exponential, each between 4 and 10
WaitsInRange ==
    \A k \in 1..Len(waits) :
       /\ waits[k] >= 4
       /\ waits[k] <= 10
       /\ waits[k] = (IF 2 ^ (k - 1) < 4 THEN 4
                      ELSE IF 2 ^ (k - 1) > 10 THEN 10 ELSE 2 ^ (k - 1))

\* at most 5 attempts, and one wait before each re-attempt
AttemptsBounded ==
    /\ pc = "request" => attempt \in 1..5
    /\ pc = "request" => Len(waits) = attempt - 1
    /\ WaitsInRange

\* a step that ends the handling of a batch: with a response, at the
\* attempt that got it, or with the error of the 5th failed attempt; the
\* loop is then at the next batch or over
BatchEnds ==
    Len(batchLog') = Len(batchLog) + 1 =>
       /\ attempt <= 5
       /\ Len(waits) = attempt - 1
       /\ batchLog'[Len(batchLog')].kind = "retry_error" => attempt = 5
       /\ batchStart' = batchStart + batch_size
       /\ pc' \in {"request", "aggregate"}
       /\ pc' = "request" => (attempt' = 1 /\ waits' = <<>>)

\* C15: make_openai_request issues the completion call at most 5 times for
\* one batch, waits between 4 and 10 units (2^(n-1) kept in that range)
\* before each re-attempt, hands back the first response without a further
\* attempt, and gives up after the 5th failure, after which the loop goes
\* on with the next batch.
C15_AtMostFiveAttempts == []AttemptsBounded /\ [][BatchEnds]_vars

C15_Witness ==
    /\ pc = "request"
    /\ Len(batchLog) = 1
    /\ batchLog[1].kind = "retry_error"
    /\ attempt = 5
    /\ waits = <<4, 4, 4, 8>>

\* C17: whenever the completion request of a batch after the first is about
\* to be issued, time.sleep(2) was executed after the batch before it,
\* whether that batch was parsed or skipped.
C17_DelayBeforeNextBatch ==
    (pc = "request" /\ Len(delayLog) > 0) => delayLog[Len(delayLog)]

-----------------------------------------------------------------------------
(* All the scripts: the counting runs, the discovery and the document loader *)

InitSearchLoop ==
    /\ script = "discover_search"
    /\ pc = "discover"
    /\ IdleRun
    /\ jsonFile = NoFile
    /\ csvFile = NoFile
    /\ output = DefaultOutputFile
    /\ NewWorld
    /\ IdleIndex
    /\ top_n \in TopNs
    /\ batch_size \in BatchSizes
    /\ found = 0
    /\ batchStart = 0
    /\ attempt = 0
    /\ all_incidents = <<>>
    /\ batchLog = <<>>
    /\ batches = <<>>
    /\ top_incidents = <<>>
    /\ waits = <<>>
    /\ delayLog = <<>>

InitLoops == InitDiscover \/ InitSearchLoop

NextLoops == NextDiscover \/ ExtractBatch \/ WriteTopIncidentsToJson

SpecLoops == InitLoops /\ [][NextLoops]_vars

InitAll == Init \/ InitLoops \/ InitIndex

NextAll == Next \/ NextLoops \/ NextIndex

SpecAll == InitAll /\ [][NextAll]_vars

\* the requests of the current step that are not completion attempts of
\* make_openai_request
OutsideRetry(k) == ~(k = "chat" /\ script = "discover_azureai")

\* C16 as stated: outside make_openai_request each search, key-phrase,
\* completion, upload, index-management and document-count request is issued
\* at most once per logical step.
C16_NoRequestRepeated ==
    \A k \in DOMAIN calls : OutsideRetry(k) => calls[k] <= 1

\* C16 as amended: the same, except for the document-count request of
\* create_index, which is issued up to 5 times in one step.
C16_OnlyCountPollRepeated ==
    /\ \A k \in DOMAIN calls : (OutsideRetry(k) /\ k # "count") => calls[k] <= 1
    /\ script # "create_index" => calls.count <= 1
    /\ script = "create_index" => calls.count <= 5

C16_Witness ==
    /\ script = "create_index"
    /\ pc = "done"
    /\ calls.delete_index = 0
    /\ calls.upload = 1
    /\ calls.count = 5
    /\ index.docs # NoDocs

\* document id is in the index after the step as it was before it
Kept(id) ==
    /\ id \in DOMAIN index'.docs
    /\ index'.docs[id] = index.docs[id]

\* the step is delete_index_if_exists deleting the index
IndexDeleted ==
    /\ script = "create_index"
    /\ pc = "delete"
    /\ index' = NoIndex

\* the step is an upload that the index reported as succeeded for a document
\* with this id, and the index holds the content that was sent
Reuploaded(id) ==
    /\ pc = "index"
    /\ indexLog'.upload = "ok"
    /\ id \in DOMAIN index'.docs
    /\ \E k \in 1..Len(indexLog'.documents) :
          /\ indexLog'.documents[k].id = id
          /\ indexLog'.succeeded[k]
          /\ index'.docs[id] = indexLog'.documents[k].content

\* C18 as stated: no operation of any script removes or replaces a document
\* of the index; every document uploaded earlier is still there with its
\* original content.
C18_DocumentsNeverRemovedOrReplaced ==
    [][\A id \in DOMAIN index.docs : Kept(id)]_vars

\* C18 as amended: a document of the index stays there with its content
\* through every operation except delete_index_if_exists of create_index,
\* which removes the index with all its documents, and an upload of a
\* document with the same id, which puts the uploaded content in its place.
C18_OnlyDeleteIndexAndReuploadChange ==
    [][\A id \in DOMAIN index.docs : Kept(id) \/ IndexDeleted \/ Reuploaded(id)]_vars

\* query_all has run on an index that held a.txt and e-acute.txt: a.txt was
\* uploaded again with another content, e-acute.txt was not and is kept
C18_Witness ==
    /\ script = "query_all"
    /\ indexLog.upload = "ok"
    /\ \A i \in 1..Len(dir) : dir[i].name # Name_e
    /\ DOMAIN index.docs = {encode_filename(Name_a), encode_filename(Name_e)}
    /\ index.docs[encode_filename(Name_e)] = PriorIndex.docs[encode_filename(Name_e)]
    /\ index.docs[encode_filename(Name_a)] # PriorIndex.docs[encode_filename(Name_a)]

-----------------------------------------------------------------------------
(* Several runs of the report-writing scripts, one after another *)

\* the number of runs
MaxRuns == 2

\* the scripts whose writer puts a timestamp into the file names
Timestamping(s) == s \in {"query_azure_search_all", "query_azureai_all", "discover_azureai"}

RunScripts == {"query_azure_search_all", "query_all", "query_azureai_all", "discover_azureai"}

\* the lists the runs hand to their writers
RunResults == { <<>>, << Record(<<"a">>, 1, 0) >>, << Record(<<"a">>, 1, 3) >> }

RunTopIncidents == { << <<Cat_a.text, 1>> >>, << <<Cat_a.text, 2>>, <<Cat_c.text, 1>> >> }

\* a run of script s, at its writer
AtWriter(s, out, res, top) ==
    /\ script = s
    /\ output = out
    /\ pc = IF s = "discover_azureai" THEN "discovered" ELSE "report"
    /\ results = res
    /\ top_incidents = top
    /\ argv = <<>>
    /\ configFile = <<>>
    /\ incident_types = <<>>
    /\ idx = 1
    /\ IdleCall
    /\ failedLabels = {}
    /\ jsonFile = NoFile
    /\ csvFile = NoFile
    /\ top_n = IF s = "discover_azureai" THEN DefaultTopN ELSE 0
    /\ batch_size = IF s = "discover_azureai" THEN DefaultBatchSize ELSE 0
    /\ found = 0
    /\ batchStart = 0
    /\ attempt = 0
    /\ all_incidents = <<>>
    /\ batchLog = <<>>
    /\ batches = <<>>
    /\ waits = <<>>
    /\ delayLog = <<>>

InitRuns ==
    /\ NewWorld
    /\ IdleIndex
    /\ \E s \in RunScripts : \E out \in Outputs(s) :
         \/ s # "discover_azureai" /\ \E res \in RunResults : AtWriter(s, out, res, <<>>)
         \/ s = "discover_azureai" /\ \E top \in RunTopIncidents : AtWriter(s, out, <<>>, top)

\* time passes
Tick ==
    /\ now < MaxTicks
    /\ now' = now + 1
    /\ UNCHANGED <<runVars, discVars, fs, runLog, indexVars, startVars>>

\* a new run of script s begins and comes to its writer
BeginRun(s, out, res, top) ==
    /\ script' = s
    /\ output' = out
    /\ pc' = IF s = "discover_azureai" THEN "discovered" ELSE "report"
    /\ results' = res
    /\ top_incidents' = top
    /\ jsonFile' = NoFile
    /\ csvFile' = NoFile
    /\ top_n' = IF s = "discover_azureai" THEN DefaultTopN ELSE 0
    /\ batch_size' = IF s = "discover_azureai" THEN DefaultBatchSize ELSE 0
    /\ UNCHANGED <<argv, configFile, incident_types, idx, failedLabels, found,
                   batchStart, attempt, all_incidents, batchLog, batches, waits, delayLog,
                   indexVars, startVars>>
    /\ unchangedCall

\* the run is over and a script is started again
StartRun ==
    /\ pc \in {"done", "aborted"}
    /\ Len(runLog) < MaxRuns
    /\ \E s \in RunScripts : \E out \in Outputs(s) :
         \/ s # "discover_azureai" /\ \E res \in RunResults : BeginRun(s, out, res, <<>>)
         \/ s = "discover_azureai" /\ \E top \in RunTopIncidents : BeginRun(s, out, <<>>, top)
    /\ UNCHANGED worldVars

NextRuns ==
    \/ Tick
    \/ StartRun
    \/ GenerateReport
    \/ WriteTopIncidents

SpecRuns == InitRuns /\ [][NextRuns]_vars

\* the runs i < j of the history are runs of one timestamping script with
\* one output path
SameScriptAndOutput(i, j) ==
    /\ i < j
    /\ Timestamping(runLog[i].script)
    /\ runLog[i].script = runLog[j].script
    /\ runLog[i].output = runLog[j].output

\* C11: any two runs of a timestamping script with the same output path
\* that wrote their report files wrote to distinct JSON paths and to distinct
\* CSV paths.
C11_DistinctReportPaths ==
    \A i, j \in 1..Len(runLog) :
       SameScriptAndOutput(i, j) =>
          /\ ("json" \in runLog[i].wrote /\ "json" \in runLog[j].wrote)
                => runLog[i].json # runLog[j].json
          /\ ("csv" \in runLog[i].wrote /\ "csv" \in runLog[j].wrote)
                => runLog[i].csv # runLog[j].csv

-----------------------------------------------------------------------------
(* Claims about discover_incidents *)

\* the categories of the batches that parsed to a list, in batch order
ParsedCategories ==
    Flatten([k \in 1..Len(batchLog) |->
                IF batchLog[k].kind = "list" THEN batchLog[k].items ELSE <<>>])

\* the number of batches of the documents found
NumBatches == (found + batch_size - 1) \div batch_size

DiscoverReturned == script = "discover_azureai" /\ pc \in {"discovered", "done"}

CategorySet == { ParsedCategories[k].text : k \in 1..Len(ParsedCategories) }

Occurrences(l) ==
    Cardinality({ k \in 1..Len(ParsedCategories) : ParsedCategories[k].text = l })

FirstOccurrence(l) ==
    CHOOSE k \in 1..Len(ParsedCategories) :
        /\ ParsedCategories[k].text = l
        /\ \A m \in 1..(k - 1) : ParsedCategories[m].text # l

\* l1 ranks before l2: more occurrences, or as many and encountered first
RanksBefore(l1, l2) ==
    \/ Occurrences(l1) > Occurrences(l2)
    \/ (Occurrences(l1) = Occurrences(l2) /\ FirstOccurrence(l1) < FirstOccurrence(l2))

\* C7: when every parsed category is a string, discover_incidents returns
\* min(top_n, number of distinct categories) pairs (category, number of its
\* occurrences in the parsed batches, by exact equality), highest count
\* first, equal counts in order of first occurrence, and no category left
\* out ranks before one that is returned.
C7_TopCategories ==
    (DiscoverReturned /\ \A k \in 1..Len(ParsedCategories) : ParsedCategories[k].hashable)
    => /\ Len(top_incidents) =
            (IF top_n < Cardinality(CategorySet) THEN top_n ELSE Cardinality(CategorySet))
       /\ \A k \in 1..Len(top_incidents) :
             /\ top_incidents[k][1] \in CategorySet
             /\ top_incidents[k][2] = Occurrences(top_incidents[k][1])
       /\ \A k, m \in 1..Len(top_incidents) :
             k < m => RanksBefore(top_incidents[k][1], top_incidents[m][1])
       /\ \A l \in CategorySet :
             (\A k \in 1..Len(top_incidents) : top_incidents[k][1] # l)
                => \A k \in 1..Len(top_incidents) : RanksBefore(top_incidents[k][1], l)

C7_Witness ==
    /\ DiscoverReturned
    /\ top_n = 2
    /\ Len(batchLog) = 2
    /\ batchLog[1] = [kind |-> "list", items |-> <<Cat_a, Cat_b>>]
    /\ batchLog[2] = [kind |-> "list", items |-> <<Cat_a, Cat_c>>]
    /\ top_incidents = << <<Cat_a.text, 2>>, <<Cat_b.text, 1>> >>

\* C8: a batch that does not parse to a list, or whose request fails on
\* every attempt, adds no category, and every batch of the documents found is
\* requested all the same: at every point of the loop one outcome is logged
\* per batch started before, after the loop one per batch, and the collected
\* categories are those of the batches that parsed, in order.
C8_FailedBatchSkipped ==
    /\ (script = "discover_azureai" /\ pc = "request") =>
          /\ Len(batchLog) * batch_size = batchStart
          /\ all_incidents = ParsedCategories
    /\ (script = "discover_azureai" /\ found > 0
          /\ pc \in {"aggregate", "discovered", "done"}) =>
          /\ Len(batchLog) = NumBatches
          /\ all_incidents = ParsedCategories

C8_Witness ==
    /\ DiscoverReturned
    /\ Len(batchLog) = 3
    /\ batchLog[1] = [kind |-> "list", items |-> <<Cat_a, Cat_b>>]
    /\ batchLog[2].kind = "retry_error"
    /\ batchLog[3] = [kind |-> "list", items |-> <<Cat_b>>]
    /\ top_incidents = << <<Cat_b.text, 2>>, <<Cat_a.text, 1>> >>

\* C24: when the list parsed from any batch holds an element that cannot be
\* a dictionary key, discover_incidents returns the empty list, whatever the
\* other batches gave.
C24_UnhashableDropsAll ==
    (DiscoverReturned
       /\ \E k \in 1..Len(ParsedCategories) : ~ParsedCategories[k].hashable)
    => top_incidents = <<>>

\* the first batch gave two categories, the second one a nested list
C24_Witness ==
    /\ DiscoverReturned
    /\ Len(batchLog) = 2
    /\ batchLog[1] = [kind |-> "list", items |-> <<Cat_a, Cat_b>>]
    /\ batchLog[2] = [kind |-> "list", items |-> <<Cat_a, Nested>>]
    /\ top_incidents = <<>>

\* C27: in discover_azureai.py, when discover_incidents has returned the
\* empty list, main ends without a call of the writer (which is what creates
\* the reports directory) and with no report file; a report file exists only
\* when the list returned is not empty.
C27_NoReportWhenNothingDiscovered ==
    script = "discover_azureai" =>
       /\ (pc = "done" /\ top_incidents = <<>>) =>
             /\ runLog = <<>>
             /\ fs = NoFiles
             /\ ~jsonFile.exists /\ ~csvFile.exists
       /\ (fs # NoFiles \/ runLog # <<>> \/ jsonFile.exists \/ csvFile.exists) =>
             (pc = "done" /\ top_incidents # <<>>)

\* two documents were found and both batches were skipped
C27_Witness ==
    /\ script = "discover_azureai"
    /\ pc = "done"
    /\ found = 2
    /\ Len(batchLog) = 2
    /\ \A k \in 1..Len(batchLog) : batchLog[k].kind # "list"
    /\ top_incidents = <<>>
    /\ fs = NoFiles

-----------------------------------------------------------------------------
(* The batch loops of discover_azureai.py and discover_search.py *)

\* the batches made so far are consecutive slices of the results, from the
\* first document on, of batch_size documents each; only a batch that ends
\* with the last document may be smaller, and none is empty
ConsecutiveBatches ==
    /\ Len(batches) > 0 => batches[1].first = 0
    /\ \A k \in 1..Len(batches) :
          /\ batches[k].first < batches[k].last
          /\ batches[k].last <= found
          /\ batches[k].last - batches[k].first <= batch_size
          /\ batches[k].last - batches[k].first < batch_size
                => (k = Len(batches) /\ batches[k].last = found)
    /\ \A k \in 1..(Len(batches) - 1) : batches[k + 1].first = batches[k].last

\* every document found is in a batch, and one request was made per batch:
\* ceil(found / batch_size) in all
AllBatchesRequested ==
    /\ found > 0 => (Len(batches) > 0 /\ batches[Len(batches)].last = found)
    /\ Len(batches) = NumBatches
    /\ Len(batchLog) = NumBatches

LoopOver == pc \in {"aggregate", "discovered", "done"}

\* a key-phrase request of discover_search raised
BatchRaised == Len(batchLog) > 0 /\ batchLog[Len(batchLog)].kind = "raise"

-----------------------------------------------------------------------------
(* main's except clause *)

\* a step of main has raised an exception to main: the delete or the create
\* of the index, the document loader, or the report writer of a counting
\* script
StepRaised ==
    \/ deleteOutcome = "error"
    \/ (calls.create_index = 1 /\ ~index.exists)
    \/ UploadRaised
    \/ (WriteFailed /\ script \notin {"discover_azureai", "discover_search"})

C29_NothingEscapes ==
    /\ pc # "crashed"
    /\ StepRaised => pc = "aborted"

\* C29: in every script an exception a step raises to main ends the run in
\* main's except clause, from where main returns: no run ends with an
\* exception out of main, and no step runs after the one that raised.
C29_MainCatchesEverything == []C29_NothingEscapes /\ [][pc # "aborted"]_vars

\* query_azureai_all counted two labels and could not write the report
C29_Witness ==
    /\ script = "query_azureai_all"
    /\ pc = "aborted"
    /\ Len(results) = 2
    /\ WriteFailed

====
